---------------------------- MODULE Spec2Model ----------------------------
(***************************************************************************)
(* Model of the wabrum-video-bot generation-and-approval pipeline:         *)
(* the job store (database/models.py), the manual pipeline and the         *)
(* operator callbacks (bot/handlers.py), the scheduled pipeline            *)
(* (services/scheduler.py) and the outcomes of the external collaborators  *)
(* (services/cscart.py, claude_stylist.py, klingai.py).                    *)
(***************************************************************************)
EXTENDS Integers, Sequences, FiniteSets, TLC

VARIABLES
  now,                  \* wall clock, whole hours since 00:00 UTC of day 0
  products,             \* table products; the row id is the position
  video_tasks,          \* table video_tasks; the row id is the position
  generation_sessions,  \* table generation_sessions; the row id is the position
  klingai_tasks,        \* number of tasks the render service has accepted
  runs,                 \* pipeline coroutines: cmd_generate / daily_generation_job
  pollers,              \* background _poll_and_send_videos tasks
  messages,             \* Telegram messages that carry an inline keyboard
  handler,              \* the update handler the Application is running, if any
  gate_log,             \* last answer of product_has_video_today (observer)
  regen_log             \* last completed _handle_regenerate (observer)

vars == <<now, products, video_tasks, generation_sessions, klingai_tasks,
          runs, pollers, messages, handler, gate_log, regen_log>>

(***************************************************************************)
(* Bounds of the model.                                                    *)
(***************************************************************************)
NumItems == 2        \* catalog ids 1..NumItems
NumAdmins == 2       \* TELEGRAM_ADMIN_IDS = 1..NumAdmins
MaxRuns == 2         \* pipeline invocations per behaviour
MaxTasks == 2        \* rows of video_tasks
MaxClock == 30       \* last hour the clock reaches
MaxFetchLen == 2     \* length of one catalog answer (dedup specification)
MaxMessages == 3     \* messages after which no further details are asked for
MaxRanked == 6        \* entries of a ranking, one more than the select count

CscartIds == 1..NumItems
TELEGRAM_ADMIN_IDS == 1..NumAdmins
Names == {"n1", "n2"}
PromptTypes == {"detail", "lifestyle"}

(***************************************************************************)
(* Sequence helpers.                                                       *)
(***************************************************************************)
Range(s) == {s[i] : i \in DOMAIN s}

SeqsUpTo(S, n) == UNION {[1..k -> S] : k \in 0..n}

(***************************************************************************)
(* Time.  SQLite's CURRENT_TIMESTAMP is the UTC text 'YYYY-MM-DD HH:MM:SS';*)
(* datetime.isoformat() of an aware UTC datetime is                        *)
(* 'YYYY-MM-DDTHH:MM:SS+00:00'.  A timestamp text is modelled by its three *)
(* fixed-width parts: the date, the separator character, the time of day.  *)
(* SQLite compares two texts bytewise, that is lexicographically on these  *)
(* parts.                                                                  *)
(***************************************************************************)
UtcDate(t) == t \div 24
UtcHour(t) == t % 24
\* calendar day in the business timezone, UTC+5 (Ashgabat)
BusinessDate(t) == (t + 5) \div 24

CharCode(c) == CASE c = " " -> 32 [] c = "T" -> 84

\* DEFAULT CURRENT_TIMESTAMP of the column created_at
CurrentTimestamp(t) == [date |-> UtcDate(t), sep |-> " ", time |-> UtcHour(t)]

\* datetime.now(timezone.utc).replace(hour=0, minute=0, second=0, microsecond=0)
TodayStart(t) == UtcDate(t) * 24

\* today_start.isoformat()
IsoFormat(t) == [date |-> UtcDate(t), sep |-> "T", time |-> UtcHour(t)]

\* created_at >= ? on two TEXT values (BINARY collation)
TextGE(a, b) ==
  IF a.date # b.date THEN a.date > b.date
  ELSE IF a.sep # b.sep THEN CharCode(a.sep) > CharCode(b.sep)
  ELSE a.time >= b.time


(***************************************************************************)
(* The job store: database/models.py over the schema of database/db.py.    *)
(* A products row keeps the catalog payload (name, category, image_url,    *)
(* price, vendor travel together) under name.                              *)
(***************************************************************************)
ProductIdOf(tbl, cscart_id) ==
  IF \E i \in DOMAIN tbl : tbl[i].cscart_id = cscart_id
  THEN CHOOSE i \in DOMAIN tbl : tbl[i].cscart_id = cscart_id
  ELSE 0

\* INSERT ... ON CONFLICT(cscart_id) DO UPDATE SET name, ..., ai_score
\* an insert that would leave an existing row as it is
insert_or_ignore_product(tbl, cscart_id, name, ai_score) ==
  IF ProductIdOf(tbl, cscart_id) # 0 THEN tbl
  ELSE Append(tbl, [cscart_id |-> cscart_id, name |-> name, ai_score |-> ai_score])

\* an INSERT OR REPLACE: the conflicting row is deleted (its id stays unused)
\* and the values are inserted as a new row
replace_product(tbl, cscart_id, name, ai_score) ==
  Append(IF ProductIdOf(tbl, cscart_id) # 0
         THEN [tbl EXCEPT ![ProductIdOf(tbl, cscart_id)] =
                 [cscart_id |-> 0, name |-> "", ai_score |-> 0]]
         ELSE tbl,
         [cscart_id |-> cscart_id, name |-> name, ai_score |-> ai_score])

upsert_product(tbl, cscart_id, name, ai_score) ==
  IF ProductIdOf(tbl, cscart_id) # 0
  THEN [tbl EXCEPT ![ProductIdOf(tbl, cscart_id)] =
          [@ EXCEPT !.name = name, !.ai_score = ai_score]]
  ELSE Append(tbl, [cscart_id |-> cscart_id, name |-> name, ai_score |-> ai_score])

\* the value upsert_product returns: SELECT id FROM products WHERE
\* cscart_id = ?, read after the write is committed
upsert_product_id(tbl, cscart_id, name, ai_score) ==
  ProductIdOf(upsert_product(tbl, cscart_id, name, ai_score), cscart_id)

\* SELECT * FROM products WHERE cscart_id = ?  (0: no row)
get_product_by_cscart_id(tbl, cscart_id) == ProductIdOf(tbl, cscart_id)

\* SELECT COUNT(*) ... WHERE p.cscart_id = ? AND vt.created_at >= ?  > 0
product_has_video_today(tasks, prods, cscart_id, t) ==
  \E i \in DOMAIN tasks :
     /\ tasks[i].product_id \in DOMAIN prods
     /\ prods[tasks[i].product_id].cscart_id = cscart_id
     /\ TextGE(tasks[i].created_at, IsoFormat(TodayStart(t)))

\* an insert that would store the row as already succeeded
create_video_task_done(tasks, product_id, klingai_task_id, prompt, prompt_type, t) ==
  Append(tasks, [product_id |-> product_id,
                 klingai_task_id |-> klingai_task_id,
                 prompt |-> prompt,
                 prompt_type |-> prompt_type,
                 status |-> "succeed",
                 video_url |-> "",
                 telegram_message_id |-> 0,
                 created_at |-> CurrentTimestamp(t),
                 updated_at |-> CurrentTimestamp(t)])

\* INSERT INTO video_tasks (...) VALUES (?, ?, ?, ?, 'submitted')
create_video_task(tasks, product_id, klingai_task_id, prompt, prompt_type, t) ==
  Append(tasks, [product_id |-> product_id,
                 klingai_task_id |-> klingai_task_id,
                 prompt |-> prompt,
                 prompt_type |-> prompt_type,
                 status |-> "submitted",
                 video_url |-> "",
                 telegram_message_id |-> 0,
                 created_at |-> CurrentTimestamp(t),
                 updated_at |-> CurrentTimestamp(t)])

\* an UPDATE without its WHERE clause: every row gets the values
update_every_video_task(tasks, task_id, kwargs, t) ==
  IF DOMAIN kwargs = {} THEN tasks
  ELSE [i \in DOMAIN tasks |->
          [f \in DOMAIN tasks[i] |->
             IF f = "updated_at" THEN IsoFormat(t)
             ELSE IF f \in DOMAIN kwargs THEN kwargs[f] ELSE tasks[i][f]]]

\* a write of the whole row: the fields not named go back to their defaults
replace_video_task(tasks, task_id, kwargs, t) ==
  IF DOMAIN kwargs = {} \/ task_id \notin DOMAIN tasks THEN tasks
  ELSE [tasks EXCEPT ![task_id] =
          [f \in DOMAIN @ |->
             IF f = "updated_at" THEN IsoFormat(t)
             ELSE IF f \in DOMAIN kwargs THEN kwargs[f]
             ELSE IF f = "status" THEN "submitted"
             ELSE @[f]]]

\* UPDATE video_tasks SET <kwargs>, updated_at = ? WHERE id = ?
update_video_task(tasks, task_id, kwargs, t) ==
  IF DOMAIN kwargs = {} \/ task_id \notin DOMAIN tasks THEN tasks
  ELSE [tasks EXCEPT ![task_id] =
          [f \in DOMAIN @ |->
             IF f = "updated_at" THEN IsoFormat(t)
             ELSE IF f \in DOMAIN kwargs THEN kwargs[f] ELSE @[f]]]

\* INSERT INTO generation_sessions (status) VALUES ('running')
create_session(tbl) ==
  Append(tbl, [products_fetched |-> 0, products_selected |-> 0,
               videos_generated |-> 0, status |-> "running"])

\* UPDATE generation_sessions SET <kwargs> WHERE id = ?
update_session(tbl, session_id, kwargs) ==
  IF DOMAIN kwargs = {} \/ session_id \notin DOMAIN tbl THEN tbl
  ELSE [tbl EXCEPT ![session_id] =
          [f \in DOMAIN @ |-> IF f \in DOMAIN kwargs THEN kwargs[f] ELSE @[f]]]


(***************************************************************************)
(* Program constants (config.py).                                          *)
(***************************************************************************)
PRODUCTS_TO_SELECT_DAILY == 5
DAILY_GENERATION_HOUR_UTC == 4
\* cmd_generate's fallback takes scored[:5]
MANUAL_TOP_N == 5
VIDEO_VARIANTS_PER_PRODUCT == 2
KLINGAI_POLLING_INTERVAL == 30
KLINGAI_TASK_TIMEOUT == 600
max_retries == 3

(***************************************************************************)
(* Stage 1: the two catalog answers are concatenated and de-duplicated by  *)
(* cscart_id.  The loop is written out once in daily_generation_job and    *)
(* once in cmd_generate.                                                   *)
(***************************************************************************)
RECURSIVE DedupScheduledLoop(_, _, _)
DedupScheduledLoop(ps, seen, all_products) ==
  IF ps = <<>> THEN all_products
  ELSE IF Head(ps).cscart_id \notin seen
       THEN DedupScheduledLoop(Tail(ps), seen \cup {Head(ps).cscart_id},
                               Append(all_products, Head(ps)))
       ELSE DedupScheduledLoop(Tail(ps), seen, all_products)

DeduplicateScheduled(new_products, popular_products) ==
  DedupScheduledLoop(new_products \o popular_products, {}, <<>>)

RECURSIVE DedupManualLoop(_, _, _)
DedupManualLoop(ps, seen, all_products) ==
  IF ps = <<>> THEN all_products
  ELSE IF Head(ps).cscart_id \notin seen
       THEN DedupManualLoop(Tail(ps), seen \cup {Head(ps).cscart_id},
                            Append(all_products, Head(ps)))
       ELSE DedupManualLoop(Tail(ps), seen, all_products)

\* the loop without its seen-set test
DeduplicateManualNoSeen(new_products, popular_products) ==
  new_products \o popular_products

DeduplicateManual(new_products, popular_products) ==
  DedupManualLoop(new_products \o popular_products, {}, <<>>)

\* product_map = {p["cscart_id"]: p for p in all_products}
InProductMap(all_products, cid) ==
  \E n \in DOMAIN all_products : all_products[n].cscart_id = cid

ProductMap(all_products, cid) ==
  all_products[CHOOSE n \in DOMAIN all_products : all_products[n].cscart_id = cid]

(***************************************************************************)
(* Stage 2: curation.  A ranked entry is [cscart_id, score, selected];     *)
(* an absent id is 0, an absent score is -1 and an absent selected flag is *)
(* "none"; the pipeline reads the last two through .get("score", 0) and    *)
(* .get("selected", False) and the id through s["cscart_id"].              *)
(***************************************************************************)
ScoreOf(e) == IF e.score = -1 THEN 0 ELSE e.score
IsSelected(e) == e.selected = "yes"

\* a scoring call whose fallback would flag every entry selected
select_and_flag_all(all_products, response) ==
  CASE response.kind = "ranked" ->
         IF response.ranked # <<>> /\ response.ranked[1].score = -1
         THEN [kind |-> "raise", scored |-> <<>>]
         ELSE [kind |-> "ok", scored |-> response.ranked]
    [] response.kind = "unparseable" ->
         [kind |-> "ok",
          scored |-> [n \in DOMAIN all_products |->
                        [cscart_id |-> all_products[n].cscart_id,
                         score |-> 5,
                         selected |-> "yes"]]]
    [] OTHER -> [kind |-> "raise", scored |-> <<>>]

\* claude_stylist.select_and_score_products: what the call returns for a
\* response of the Curator ("raise": the call raises).  A response is
\* "ranked" (a JSON object, ranked_products read with a default of []),
\* "unparseable" (json.loads raises JSONDecodeError), "wrong_shape" (valid
\* JSON that is not an object, or no content block) or "error" (APIError).
\* The log line reads ranked[0]['score'] and raises KeyError without it.
select_and_score_products(all_products, response) ==
  CASE response.kind = "ranked" ->
         IF response.ranked # <<>> /\ response.ranked[1].score = -1
         THEN [kind |-> "raise", scored |-> <<>>]
         ELSE [kind |-> "ok", scored |-> response.ranked]
    [] response.kind = "unparseable" ->
         [kind |-> "ok",
          scored |-> [n \in DOMAIN all_products |->
                        [cscart_id |-> all_products[n].cscart_id,
                         score |-> 5,
                         selected |-> IF n - 1 < PRODUCTS_TO_SELECT_DAILY
                                      THEN "yes" ELSE "no"]]]
    [] OTHER -> [kind |-> "raise", scored |-> <<>>]

\* an insertion that would put an entry before the entries of equal score
RECURSIVE InsertBeforeEqual(_, _)
InsertBeforeEqual(s, e) ==
  IF s = <<>> THEN <<e>>
  ELSE IF ScoreOf(Head(s)) > ScoreOf(e)
       THEN <<Head(s)>> \o InsertBeforeEqual(Tail(s), e)
       ELSE <<e>> \o s

RECURSIVE InsertByScore(_, _)
InsertByScore(s, e) ==
  IF s = <<>> THEN <<e>>
  ELSE IF ScoreOf(Head(s)) >= ScoreOf(e)
       THEN <<Head(s)>> \o InsertByScore(Tail(s), e)
       ELSE <<e>> \o s

RECURSIVE SortByScoreDesc(_)
\* scored.sort(key=lambda x: x.get("score", 0), reverse=True): stable
SortByScoreDesc(s) ==
  IF s = <<>> THEN <<>>
  ELSE InsertByScore(SortByScoreDesc(SubSeq(s, 1, Len(s) - 1)), s[Len(s)])

FilterSelected(scored) == SelectSeq(scored, IsSelected)

\* the list scored after the selection step (the fallback sorts it in place
\* and marks the entries it takes)
ScoredAfterSelection(scored, top_n) ==
  IF FilterSelected(scored) # <<>> THEN scored
  ELSE LET sorted == SortByScoreDesc(scored)
       IN [n \in DOMAIN sorted |->
             IF n <= top_n THEN [sorted[n] EXCEPT !.selected = "yes"]
             ELSE sorted[n]]

\* the list selected
Selection(scored, top_n) ==
  IF FilterSelected(scored) # <<>> THEN FilterSelected(scored)
  ELSE LET marked == ScoredAfterSelection(scored, top_n)
       IN SubSeq(marked, 1, IF Len(marked) < top_n THEN Len(marked) ELSE top_n)

(***************************************************************************)
(* Stage 5: instructions.  A prompt is [type, prompt]; an absent prompt    *)
(* text is "none".                                                         *)
(***************************************************************************)
FallbackPrompts ==
  <<[type |-> "detail", prompt |-> "text"], [type |-> "lifestyle", prompt |-> "text"]>>

\* claude_stylist.generate_prompts
generate_prompts(response) ==
  CASE response.kind = "prompts" -> [kind |-> "ok", prompts |-> response.prompts]
    [] response.kind = "unparseable" -> [kind |-> "ok", prompts |-> FallbackPrompts]
    [] OTHER -> [kind |-> "raise", prompts |-> <<>>]

\* prompt_data.get("prompt", "")
PromptText(prompt_data) == IF prompt_data.prompt = "none" THEN "" ELSE prompt_data.prompt


(***************************************************************************)
(* Coroutines.  A run is one invocation of cmd_generate ("manual") or of   *)
(* daily_generation_job ("scheduled"); its fields are the locals of the    *)
(* function and pc is the await it is suspended at.  Observers: after is   *)
(* the set of runs that had ended when this one began, polling tells that  *)
(* the run reached its poll stage, raised that an exception reached the    *)
(* except clause of the pipeline and raised_at the stage it came from,     *)
(* rejected is 1 once a submission of the run has failed,                  *)
(* curation is the response the scoring call got and returned the list    *)
(* the scoring call returned, heard is the list of the answers the         *)
(* coroutine got from its collaborators, each with the call it answered.   *)
(*                                                                         *)
(* The Application processes updates one at a time (concurrent_updates is  *)
(* not enabled in main.py): handler is the update handler in progress.     *)
(* The scheduled job and the background pollers interleave with it at      *)
(* every await.                                                            *)
(***************************************************************************)
Idle == [kind |-> "idle", run |-> 0, task_id |-> 0, product_id |-> 0,
         prompt_type |-> "", chat_id |-> 0]

\* the position of a coroutine inside klingai.poll_task_until_done (polled:
\* the job index the loop is at, elapsed, queries made, the last answer and
\* the loop's result once it has returned) and inside
\* klingai.create_video_task (key: the instruction, attempt, the sleeps so
\* far, the responses so far and the call's outcome once it has ended)
NoPoll == [polled |-> 0, elapsed |-> 0, queries |-> 0, answer |-> "none",
           out |-> "none", error |-> "none"]
NoSubmit == [key |-> <<0, 0>>, attempt |-> 0, slept |-> <<>>, attempts |-> 0,
             response |-> "none", history |-> <<>>, out |-> "none"]

NoGate == [cscart_id |-> 0, at |-> 0, result |-> FALSE, tasks |-> 0, run |-> 0]
NoRegen == [old |-> 0, new |-> 0, prompts |-> <<>>, outcome |-> "none"]

RunRecord(trigger, chat_id, after) ==
  [trigger |-> trigger, chat_id |-> chat_id,
   pc |-> IF trigger = "manual" THEN "fetch" ELSE "start",
   session_id |-> 0,
   new_products |-> <<>>, popular_products |-> <<>>, all_products |-> <<>>,
   scored |-> <<>>, selected |-> <<>>, u |-> 1, i |-> 1,
   product_id |-> 0, prompts |-> <<>>, j |-> 1,
   task_ids |-> <<>>, total_tasks |-> 0, completed |-> 0, k |-> 1, a |-> 1,
   sent |-> 0, polling |-> FALSE, raised |-> FALSE, raised_at |-> "none", rejected |-> 0,
   curation |-> [kind |-> "none", ranked |-> <<>>],
   returned |-> <<>>, poll |-> NoPoll, submit |-> NoSubmit, heard |-> <<>>,
   after |-> after]

\* the coroutine got this answer to this call
Heard(co, call, answer) == [co EXCEPT !.heard = Append(@, <<call, answer>>)]

NewRun(trigger, chat_id) ==
  RunRecord(trigger, chat_id, {q \in DOMAIN runs : runs[q].pc = "done"})

NewPoller(chat_id, task_ids, session_id, run) ==
  [chat_id |-> chat_id, task_ids |-> task_ids, session_id |-> session_id,
   run |-> run, k |-> 1, completed |-> 0, sent |-> 0, poll |-> NoPoll,
   heard |-> <<>>, pc |-> "poll"]

Init ==
  /\ now = 0
  /\ products = <<>>
  /\ video_tasks = <<>>
  /\ generation_sessions = <<>>
  /\ klingai_tasks = 0
  /\ runs = <<>>
  /\ pollers = <<>>
  /\ messages = <<>>
  /\ handler = Idle
  /\ gate_log = NoGate
  /\ regen_log = NoRegen

(***************************************************************************)
(* The clock and the daily trigger.  The clock moves between the sample    *)
(* hours it is given; arriving at DAILY_GENERATION_HOUR_UTC fires the cron *)
(* trigger of init_scheduler, which starts daily_generation_job unless an  *)
(* instance of the job is still running (APScheduler, max_instances = 1).  *)
(***************************************************************************)
NextInstant(t, hours) ==
  CHOOSE x \in (t + 1)..(t + 24) :
     /\ UtcHour(x) \in hours
     /\ \A y \in (t + 1)..(x - 1) : UtcHour(y) \notin hours

ClockTick(hours) ==
  /\ NextInstant(now, hours) <= MaxClock
  /\ now' = NextInstant(now, hours)
  /\ UNCHANGED <<products, video_tasks, generation_sessions, klingai_tasks,
                 runs, pollers, messages, handler, gate_log, regen_log>>

ScheduledRunning ==
  \E q \in DOMAIN runs : runs[q].trigger = "scheduled" /\ runs[q].pc # "done"

CronTick(hours) ==
  /\ NextInstant(now, hours) <= MaxClock
  /\ now' = NextInstant(now, hours)
  /\ IF UtcHour(now') = DAILY_GENERATION_HOUR_UTC /\ ~ScheduledRunning
     THEN /\ Len(runs) < MaxRuns
          /\ runs' = Append(runs, NewRun("scheduled", 0))
     ELSE UNCHANGED runs
  /\ UNCHANGED <<products, video_tasks, generation_sessions, klingai_tasks,
                 pollers, messages, handler, gate_log, regen_log>>

\* /generate from an operator: the handler starts
CmdGenerate(admin) ==
  /\ handler = Idle
  /\ Len(runs) < MaxRuns
  /\ runs' = Append(runs, NewRun("manual", admin))
  /\ handler' = [Idle EXCEPT !.kind = "generate", !.run = Len(runs) + 1]
  /\ UNCHANGED <<now, products, video_tasks, generation_sessions, klingai_tasks,
                 pollers, messages, gate_log, regen_log>>

\* daily_generation_job: session_id = await models.create_session()
SchedStart(r) ==
  /\ r \in DOMAIN runs
  /\ runs[r].pc = "start"
  /\ generation_sessions' = create_session(generation_sessions)
  /\ runs' = [runs EXCEPT ![r].session_id = Len(generation_sessions) + 1,
                          ![r].pc = "fetch"]
  /\ UNCHANGED <<now, products, video_tasks, klingai_tasks, pollers, messages,
                 handler, gate_log, regen_log>>

\* an exception reaches the pipeline's except clause: cmd_generate edits its
\* message; daily_generation_job records status failed
RunRaises(r, run) ==
  /\ runs' = [runs EXCEPT ![r] = [run EXCEPT !.pc = "done", !.raised = TRUE,
                                         !.raised_at = run.pc]]
  /\ IF run.trigger = "manual"
     THEN /\ handler' = Idle
          /\ UNCHANGED generation_sessions
     ELSE /\ generation_sessions' =
               update_session(generation_sessions, run.session_id,
                              [status |-> "failed"])
          /\ UNCHANGED handler

\* stage 1: fetch and de-duplicate
Fetch(r, answers) ==
  /\ r \in DOMAIN runs
  /\ runs[r].pc = "fetch"
  /\ \E ans \in answers :
       IF ans.kind = "error" THEN RunRaises(r, Heard(runs[r], "fetch", ans))
       ELSE LET all == IF runs[r].trigger = "manual"
                       THEN DeduplicateManual(ans.new_products, ans.popular_products)
                       ELSE DeduplicateScheduled(ans.new_products, ans.popular_products)
                run == [Heard(runs[r], "fetch", ans) EXCEPT
                                       !.new_products = ans.new_products,
                                       !.popular_products = ans.popular_products,
                                       !.all_products = all,
                                       !.pc = IF all = <<>> THEN "done" ELSE "score"]
            IN /\ runs' = [runs EXCEPT ![r] = run]
               /\ IF run.trigger = "manual"
                  THEN /\ handler' = IF all = <<>> THEN Idle ELSE handler
                       /\ UNCHANGED generation_sessions
                  ELSE /\ generation_sessions' =
                            LET counted == update_session(generation_sessions,
                                             run.session_id,
                                             [products_fetched |-> Len(all)])
                            IN IF all = <<>>
                               THEN update_session(counted, run.session_id,
                                                   [status |-> "failed"])
                               ELSE counted
                       /\ UNCHANGED handler
  /\ UNCHANGED <<now, products, video_tasks, klingai_tasks, pollers, messages,
                 gate_log, regen_log>>


\* stage 2: curation, selection (with the top-N fallback) and the session
\* bookkeeping; cmd_generate creates its session only here
Score(r, responses) ==
  /\ r \in DOMAIN runs
  /\ runs[r].pc = "score"
  /\ \E resp \in responses :
       LET res == select_and_score_products(runs[r].all_products, resp)
           top_n == IF runs[r].trigger = "manual" THEN MANUAL_TOP_N
                    ELSE PRODUCTS_TO_SELECT_DAILY
           selected == Selection(res.scored, top_n)
           sid == IF runs[r].trigger = "manual" THEN Len(generation_sessions) + 1
                  ELSE runs[r].session_id
           run == [Heard(runs[r], "score", resp) EXCEPT
                                  !.scored = ScoredAfterSelection(res.scored, top_n),
                                  !.selected = selected,
                                  !.session_id = sid,
                                  !.u = 1,
                                  !.curation = resp,
                                  !.returned = res.scored,
                                  !.pc = "persist"]
       IN IF res.kind = "raise"
          THEN RunRaises(r, [Heard(runs[r], "score", resp) EXCEPT !.curation = resp])
          ELSE /\ runs' = [runs EXCEPT ![r] = run]
               /\ generation_sessions' =
                    IF run.trigger = "manual"
                    THEN update_session(create_session(generation_sessions), sid,
                           [products_fetched |-> Len(run.all_products),
                            products_selected |-> Len(selected)])
                    ELSE update_session(generation_sessions, sid,
                           [products_selected |-> Len(selected)])
               /\ UNCHANGED handler
  /\ UNCHANGED <<now, products, video_tasks, klingai_tasks, pollers, messages,
                 gate_log, regen_log>>

\* stage 3: one pass of "for s in scored": upsert when the id was fetched;
\* s["cscart_id"] raises KeyError for an entry without id
Persist(r) ==
  /\ r \in DOMAIN runs
  /\ runs[r].pc = "persist"
  /\ LET run == runs[r]
     IN IF run.u > Len(run.scored)
        THEN /\ runs' = [runs EXCEPT ![r].pc = "gate", ![r].i = 1]
             /\ UNCHANGED <<products, generation_sessions, handler>>
        ELSE LET sc == run.scored[run.u]
             IN IF sc.cscart_id = 0
                THEN /\ RunRaises(r, run)
                     /\ UNCHANGED products
                ELSE /\ runs' = [runs EXCEPT ![r].u = run.u + 1]
                     /\ products' =
                          IF InProductMap(run.all_products, sc.cscart_id)
                          THEN upsert_product(products, sc.cscart_id,
                                 ProductMap(run.all_products, sc.cscart_id).name,
                                 ScoreOf(sc))
                          ELSE products
                     /\ UNCHANGED <<generation_sessions, handler>>
  /\ UNCHANGED <<now, video_tasks, klingai_tasks, pollers, messages, gate_log,
                 regen_log>>

\* a fan-out that would take every selected entry as fetched
NotInProductMapNever(run, cid) == FALSE

\* for sel in selected: if cid not in product_map: continue
NotInProductMap(run, cid) == ~InProductMap(run.all_products, cid)

\* stages 4 and 5a: one pass of "for sel in selected" up to the instructions:
\* the idempotency gate, the product row, generate_prompts
Gate(r, responses) ==
  /\ r \in DOMAIN runs
  /\ runs[r].pc = "gate"
  /\ LET run == runs[r]
         skip == [run EXCEPT !.i = run.i + 1]
     IN IF run.i > Len(run.selected)
        THEN /\ runs' = [runs EXCEPT ![r].pc = "dispatch"]
             /\ UNCHANGED <<generation_sessions, handler, gate_log>>
        ELSE LET cid == run.selected[run.i].cscart_id
                 has == product_has_video_today(video_tasks, products, cid, now)
                 db_product == get_product_by_cscart_id(products, cid)
             IN IF NotInProductMap(run, cid)
                THEN /\ runs' = [runs EXCEPT ![r] = skip]
                     /\ UNCHANGED <<generation_sessions, handler, gate_log>>
                ELSE /\ gate_log' = [cscart_id |-> cid, at |-> now, result |-> has,
                                     tasks |-> Len(video_tasks), run |-> r]
                     /\ IF has \/ db_product = 0
                        THEN /\ runs' = [runs EXCEPT ![r] = skip]
                             /\ UNCHANGED <<generation_sessions, handler>>
                        ELSE \E resp \in responses :
                               LET res == generate_prompts(resp)
                               IN IF res.kind = "raise"
                                  THEN RunRaises(r, Heard(run, "prompts", resp))
                                  ELSE /\ runs' = [runs EXCEPT ![r] =
                                             [Heard(run, "prompts", resp) EXCEPT
                                                         !.product_id = db_product,
                                                         !.prompts = res.prompts,
                                                         !.j = 1,
                                                         !.pc = "submit"]]
                                       /\ UNCHANGED <<generation_sessions, handler>>
  /\ UNCHANGED <<now, products, video_tasks, klingai_tasks, pollers, messages,
                 regen_log>>

\* klingai.create_video_task returns data["data"]["task_id"] as the service
\* sent it: "ok" stands for a fresh id, "ok_no_id" for an accepted request
\* whose answer carries an empty id (0 stands for the empty value)
RemoteId(out) == IF out = "ok" THEN klingai_tasks + 1 ELSE 0

RemoteTasksAfter(out) == IF out = "ok" THEN klingai_tasks + 1 ELSE klingai_tasks

\* stage 5b: one pass of "for prompt_data in prompts": submit to the render
\* service and insert the row, or log the failure and go on
Submit(r, outcomes) ==
  /\ r \in DOMAIN runs
  /\ runs[r].pc = "submit"
  /\ LET run == runs[r]
     IN IF run.j > Len(run.prompts)
        THEN /\ runs' = [runs EXCEPT ![r].pc = "gate", ![r].i = run.i + 1]
             /\ UNCHANGED <<video_tasks, klingai_tasks>>
        ELSE LET prompt_data == run.prompts[run.j]
             IN IF PromptText(prompt_data) = ""
                THEN /\ runs' = [runs EXCEPT ![r].j = run.j + 1]
                     /\ UNCHANGED <<video_tasks, klingai_tasks>>
                ELSE \E out \in outcomes :
                       IF out \in {"ok", "ok_no_id"}
                       THEN /\ Len(video_tasks) < MaxTasks
                            /\ klingai_tasks' = RemoteTasksAfter(out)
                            /\ video_tasks' =
                                 create_video_task(video_tasks, run.product_id,
                                   RemoteId(out), PromptText(prompt_data),
                                   prompt_data.type, now)
                            /\ runs' = [runs EXCEPT ![r] =
                                  [Heard(run, "submit", out) EXCEPT
                                              !.task_ids =
                                                 Append(@, Len(video_tasks) + 1),
                                              !.total_tasks = @ + 1,
                                              !.j = run.j + 1]]
                       ELSE /\ runs' = [runs EXCEPT ![r] =
                                  [Heard(run, "submit", out) EXCEPT
                                              !.j = run.j + 1, !.rejected = 1]]
                            /\ UNCHANGED <<video_tasks, klingai_tasks>>
  /\ UNCHANGED <<now, products, generation_sessions, pollers, messages, handler,
                 gate_log, regen_log>>

\* after the fan-out: videos_generated is recorded; cmd_generate hands its
\* jobs to a background poller (or records failed when it has none) and
\* returns; daily_generation_job records failed when it has none, else polls
Dispatch(r) ==
  /\ r \in DOMAIN runs
  /\ runs[r].pc = "dispatch"
  /\ LET run == runs[r]
         counted == update_session(generation_sessions, run.session_id,
                                   [videos_generated |-> run.total_tasks])
     IN /\ generation_sessions' =
             IF run.task_ids = <<>>
             THEN update_session(counted, run.session_id, [status |-> "failed"])
             ELSE counted
        /\ IF run.trigger = "manual"
           THEN /\ handler' = Idle
                /\ IF run.task_ids # <<>>
                   THEN /\ pollers' = Append(pollers,
                              NewPoller(run.chat_id, run.task_ids, run.session_id, r))
                        /\ runs' = [runs EXCEPT ![r].pc = "background",
                                                ![r].polling = TRUE]
                   ELSE /\ runs' = [runs EXCEPT ![r].pc = "done"]
                        /\ UNCHANGED pollers
           ELSE /\ runs' = [runs EXCEPT ![r].pc =
                               IF run.task_ids = <<>> THEN "done" ELSE "poll",
                            ![r].polling = run.task_ids # <<>>,
                            ![r].k = 1]
                /\ UNCHANGED <<handler, pollers>>
  /\ UNCHANGED <<now, products, video_tasks, klingai_tasks, messages, gate_log,
                 regen_log>>

(***************************************************************************)
(* Stage 6 and 7: polling and handoff.  klingai.poll_task_until_done ends  *)
(* in one of: "succeed" (with a video url), "succeed_no_url" (no videos in *)
(* the result), "failed" (terminal failure), "timeout", or "raise" (an     *)
(* exception other than aiohttp.ClientError leaves get_task_status).       *)
(* _send_video_for_approval ends in "video" (the video message was sent,   *)
(* its id is then stored), "text" (a text message with the same keyboard   *)
(* was sent instead) or "raise" (the send itself failed).                  *)
(***************************************************************************)
PollResult(out) ==
  CASE out = "succeed" -> [status |-> "succeed", video_url |-> "url"]
    [] out = "succeed_no_url" -> [status |-> "succeed", video_url |-> ""]
    [] OTHER -> [status |-> "failed", video_url |-> ""]

\* a poll loop that would write nothing for a result
PollUpdateNothing(result) == <<>>

\* a poll loop that would write the status alone
PollUpdateStatusOnly(result) == [status |-> result.status]

\* what the poll loops write for a result
PollUpdate(result) ==
  IF result.status = "succeed"
  THEN [status |-> "succeed", video_url |-> result.video_url]
  ELSE [status |-> "failed"]

\* video_approval_keyboard under a new message
ApprovalMessage(task_id, chat_id) ==
  [task_id |-> task_id, chat_id |-> chat_id, kb |-> "approval"]

SendPossible(task_id, out) ==
  out = "video" => (task_id \in DOMAIN video_tasks /\ video_tasks[task_id].video_url # "")

\* if not task or not task["klingai_task_id"]: continue
NoRemoteId(task_id) ==
  task_id \notin DOMAIN video_tasks \/ video_tasks[task_id].klingai_task_id = 0

\* daily_generation_job, "for task_id in task_ids": poll one job and persist
\* its terminal status; after the last job the run is completed
SchedPoll(r, outcomes) ==
  /\ r \in DOMAIN runs
  /\ runs[r].pc = "poll"
  /\ LET run == runs[r]
     IN IF run.k > Len(run.task_ids)
        THEN /\ generation_sessions' =
                  update_session(generation_sessions, run.session_id,
                                 [status |-> "completed"])
             /\ runs' = [runs EXCEPT ![r].pc = "done"]
             /\ UNCHANGED <<video_tasks, handler>>
        ELSE IF NoRemoteId(run.task_ids[run.k])
        THEN /\ runs' = [runs EXCEPT ![r].k = run.k + 1]
             /\ UNCHANGED <<video_tasks, generation_sessions, handler>>
        ELSE \E out \in outcomes :
               IF out = "raise"
               THEN /\ RunRaises(r, Heard(run, "poll", out))
                    /\ UNCHANGED video_tasks
               ELSE /\ video_tasks' =
                         update_video_task(video_tasks, run.task_ids[run.k],
                                           PollUpdate(PollResult(out)), now)
                    /\ runs' = [runs EXCEPT ![r] =
                          IF PollResult(out).status = "succeed"
                          THEN [Heard(run, "poll", out) EXCEPT !.pc = "send", !.a = 1]
                          ELSE [Heard(run, "poll", out) EXCEPT !.k = run.k + 1]]
                    /\ UNCHANGED <<generation_sessions, handler>>
  /\ UNCHANGED <<now, products, klingai_tasks, pollers, messages, gate_log,
                 regen_log>>

\* daily_generation_job, "for admin_id in TELEGRAM_ADMIN_IDS": hand the job
\* to one operator; an exception is logged and the loop goes on
SchedSend(r, outcomes) ==
  /\ r \in DOMAIN runs
  /\ runs[r].pc = "send"
  /\ LET run == runs[r]
         task_id == run.task_ids[run.k]
     IN IF run.a \notin TELEGRAM_ADMIN_IDS
        THEN /\ runs' = [runs EXCEPT ![r].completed = run.completed + 1,
                                     ![r].k = run.k + 1,
                                     ![r].pc = "poll"]
             /\ UNCHANGED messages
        ELSE \E out \in outcomes :
               /\ SendPossible(task_id, out)
               /\ IF out = "raise"
                  THEN /\ runs' = [runs EXCEPT ![r] =
                             [Heard(run, "send", out) EXCEPT !.a = run.a + 1]]
                       /\ UNCHANGED messages
                  ELSE /\ messages' = Append(messages, ApprovalMessage(task_id, run.a))
                       /\ runs' = [runs EXCEPT ![r] =
                             IF out = "video"
                             THEN [Heard(run, "send", out) EXCEPT
                                              !.sent = Len(messages) + 1,
                                              !.pc = "store_msg"]
                             ELSE [Heard(run, "send", out) EXCEPT !.a = run.a + 1]]
  /\ UNCHANGED <<now, products, video_tasks, generation_sessions, klingai_tasks,
                 pollers, handler, gate_log, regen_log>>

\* _send_video_for_approval: update_video_task(task_id, telegram_message_id=...)
SchedStoreMsg(r) ==
  /\ r \in DOMAIN runs
  /\ runs[r].pc = "store_msg"
  /\ video_tasks' = update_video_task(video_tasks, runs[r].task_ids[runs[r].k],
                                      [telegram_message_id |-> runs[r].sent], now)
  /\ runs' = [runs EXCEPT ![r].a = runs[r].a + 1, ![r].pc = "send"]
  /\ UNCHANGED <<now, products, generation_sessions, klingai_tasks, pollers,
                 messages, handler, gate_log, regen_log>>

\* the run that spawned poller p, if any, has ended with it
EndOfPoller(p) ==
  IF pollers[p].run = 0 THEN runs
  ELSE [runs EXCEPT ![pollers[p].run].pc = "done"]

\* _poll_and_send_videos, "for task_id in task_ids": poll one job and persist
\* its terminal status; a failed job is reported to the chat.  After the last
\* job the session, if any, is completed.  An exception ends the task.
PollerPoll(p, outcomes, notices) ==
  /\ p \in DOMAIN pollers
  /\ pollers[p].pc = "poll"
  /\ LET po == pollers[p]
     IN IF po.k > Len(po.task_ids)
        THEN /\ generation_sessions' =
                  IF po.session_id # 0
                  THEN update_session(generation_sessions, po.session_id,
                         [videos_generated |-> Len(po.task_ids),
                          status |-> "completed"])
                  ELSE generation_sessions
             /\ pollers' = [pollers EXCEPT ![p].pc = "done"]
             /\ runs' = EndOfPoller(p)
             /\ UNCHANGED video_tasks
        ELSE IF NoRemoteId(po.task_ids[po.k])
        THEN /\ pollers' = [pollers EXCEPT ![p].k = po.k + 1]
             /\ UNCHANGED <<video_tasks, generation_sessions, runs>>
        ELSE \E out \in outcomes :
               IF out = "raise"
               THEN /\ pollers' = [pollers EXCEPT ![p] =
                          [Heard(po, "poll", out) EXCEPT !.pc = "crashed"]]
                    /\ runs' = EndOfPoller(p)
                    /\ UNCHANGED <<video_tasks, generation_sessions>>
               ELSE /\ video_tasks' =
                         update_video_task(video_tasks, po.task_ids[po.k],
                                           PollUpdate(PollResult(out)), now)
                    /\ UNCHANGED generation_sessions
                    /\ IF PollResult(out).status = "succeed"
                       THEN /\ pollers' = [pollers EXCEPT ![p] =
                                  [Heard(po, "poll", out) EXCEPT !.pc = "send"]]
                            /\ UNCHANGED runs
                       ELSE \E note \in notices :
                              IF note = "raise"
                              THEN /\ pollers' = [pollers EXCEPT ![p] =
                                         [Heard(Heard(po, "poll", out), "notice", note)
                                            EXCEPT !.pc = "crashed"]]
                                   /\ runs' = EndOfPoller(p)
                              ELSE /\ pollers' = [pollers EXCEPT ![p] =
                                         [Heard(Heard(po, "poll", out), "notice", note)
                                            EXCEPT !.k = po.k + 1]]
                                   /\ UNCHANGED runs
  /\ UNCHANGED <<now, products, klingai_tasks, messages, handler, gate_log,
                 regen_log>>

\* _poll_and_send_videos: _send_video_for_approval(bot, chat_id, task)
PollerSend(p, outcomes) ==
  /\ p \in DOMAIN pollers
  /\ pollers[p].pc = "send"
  /\ LET po == pollers[p]
         task_id == po.task_ids[po.k]
     IN \E out \in outcomes :
          /\ SendPossible(task_id, out)
          /\ IF out = "raise"
             THEN /\ pollers' = [pollers EXCEPT ![p] =
                        [Heard(po, "send", out) EXCEPT !.pc = "crashed"]]
                  /\ runs' = EndOfPoller(p)
                  /\ UNCHANGED messages
             ELSE /\ messages' = Append(messages, ApprovalMessage(task_id, po.chat_id))
                  /\ UNCHANGED runs
                  /\ pollers' = [pollers EXCEPT ![p] =
                        IF out = "video"
                        THEN [Heard(po, "send", out) EXCEPT
                                        !.sent = Len(messages) + 1,
                                        !.pc = "store_msg"]
                        ELSE [Heard(po, "send", out) EXCEPT
                                        !.completed = po.completed + 1,
                                        !.k = po.k + 1,
                                        !.pc = "poll"]]
  /\ UNCHANGED <<now, products, video_tasks, generation_sessions, klingai_tasks,
                 handler, gate_log, regen_log>>

PollerStoreMsg(p) ==
  /\ p \in DOMAIN pollers
  /\ pollers[p].pc = "store_msg"
  /\ video_tasks' = update_video_task(video_tasks,
                       pollers[p].task_ids[pollers[p].k],
                       [telegram_message_id |-> pollers[p].sent], now)
  /\ pollers' = [pollers EXCEPT ![p].completed = pollers[p].completed + 1,
                                ![p].k = pollers[p].k + 1,
                                ![p].pc = "poll"]
  /\ UNCHANGED <<now, products, generation_sessions, klingai_tasks, runs,
                 messages, handler, gate_log, regen_log>>

(***************************************************************************)
(* Operator callbacks.  A callback arrives from a button of a keyboard     *)
(* that is still attached to a delivered message: "approval" offers        *)
(* approve / reject / regenerate / details, "publish" offers publish.      *)
(* The Application handles one update at a time, so a callback starts only *)
(* when no other handler is running.  Editing the message ends in "ok" or, *)
(* when both edit calls fail, "raise" (the keyboard then stays).           *)
(***************************************************************************)
EditKeyboard(m, kb, edit) ==
  IF edit = "ok" THEN [messages EXCEPT ![m].kb = kb] ELSE messages

CallbackFrom(m, kb) ==
  /\ handler = Idle
  /\ m \in DOMAIN messages
  /\ messages[m].kb = kb
  /\ messages[m].task_id \in DOMAIN video_tasks

\* _handle_approve
Approve(m, edits) ==
  /\ CallbackFrom(m, "approval")
  /\ video_tasks' = update_video_task(video_tasks, messages[m].task_id,
                                      [status |-> "approved"], now)
  /\ \E edit \in edits : messages' = EditKeyboard(m, "publish", edit)
  /\ UNCHANGED <<now, products, generation_sessions, klingai_tasks, runs,
                 pollers, handler, gate_log, regen_log>>

\* _handle_reject
Reject(m, edits) ==
  /\ CallbackFrom(m, "approval")
  /\ video_tasks' = update_video_task(video_tasks, messages[m].task_id,
                                      [status |-> "rejected"], now)
  /\ \E edit \in edits : messages' = EditKeyboard(m, "none", edit)
  /\ UNCHANGED <<now, products, generation_sessions, klingai_tasks, runs,
                 pollers, handler, gate_log, regen_log>>

\* _handle_publish
Publish(m, edits) ==
  /\ CallbackFrom(m, "publish")
  /\ video_tasks' = update_video_task(video_tasks, messages[m].task_id,
                                      [status |-> "published"], now)
  /\ \E edit \in edits : messages' = EditKeyboard(m, "none", edit)
  /\ UNCHANGED <<now, products, generation_sessions, klingai_tasks, runs,
                 pollers, handler, gate_log, regen_log>>

\* _handle_details: reads the job and sends a text without a keyboard
Details(m) ==
  /\ CallbackFrom(m, "approval")
  /\ Len(messages) < MaxMessages
  /\ messages' = Append(messages,
                   [task_id |-> messages[m].task_id,
                    chat_id |-> messages[m].chat_id, kb |-> "none"])
  /\ UNCHANGED <<now, products, video_tasks, generation_sessions, klingai_tasks,
                 runs, pollers, handler, gate_log, regen_log>>

\* _handle_regenerate up to the Curator call: the job is read, marked
\* rejected and its message edited; when the edit fails the handler ends
RegenerateBegin(m, edits) ==
  /\ CallbackFrom(m, "approval")
  /\ LET task_id == messages[m].task_id
         task == video_tasks[task_id]
     IN /\ video_tasks' = update_video_task(video_tasks, task_id,
                                            [status |-> "rejected"], now)
        /\ \E edit \in edits :
             /\ messages' = EditKeyboard(m, "none", edit)
             /\ IF edit = "ok"
                THEN /\ handler' = [kind |-> "regenerate", run |-> 0,
                                    task_id |-> task_id,
                                    product_id |-> task.product_id,
                                    prompt_type |-> task.prompt_type,
                                    chat_id |-> messages[m].chat_id]
                     /\ UNCHANGED regen_log
                ELSE /\ handler' = Idle
                     /\ regen_log' = [NoRegen EXCEPT !.old = task_id]
  /\ UNCHANGED <<now, products, generation_sessions, klingai_tasks, runs,
                 pollers, gate_log>>

\* a choice that would ignore the type and take the first instruction
PickFirstPrompt(prompts, prompt_type) == IF prompts # <<>> THEN 1 ELSE 0

\* next((p for p in prompts if p.get("type") == task["prompt_type"]),
\*      prompts[0] if prompts else None); the index 0 stands for None
PickPrompt(prompts, prompt_type) ==
  LET same == {n \in DOMAIN prompts : prompts[n].type = prompt_type}
  IN IF same # {} THEN CHOOSE n \in same : \A o \in same : n <= o
     ELSE IF prompts # <<>> THEN 1
     ELSE 0

\* _handle_regenerate from the Curator call on: a new instruction, a new
\* submission, a new row and a background poller for it; any failure ends
\* the handler with nothing created
RegenerateFinish(responses, outcomes) ==
  /\ handler.kind = "regenerate"
  /\ handler' = Idle
  /\ \E response \in responses :
       LET res == generate_prompts(response)
           n == IF res.kind = "raise" THEN 0
                ELSE PickPrompt(res.prompts, handler.prompt_type)
           usable == n # 0 /\ res.prompts[n].prompt # "none"
                           /\ res.prompts[n].type # "none"
           logged == IF res.kind = "raise" THEN <<>> ELSE res.prompts
       IN IF ~usable
          THEN /\ regen_log' = [old |-> handler.task_id, new |-> 0,
                                prompts |-> logged, outcome |-> "none"]
               /\ UNCHANGED <<klingai_tasks, video_tasks, pollers>>
          ELSE \E out \in outcomes :
                 IF out = "ok"
                 THEN /\ Len(video_tasks) < MaxTasks
                      /\ klingai_tasks' = klingai_tasks + 1
                      /\ video_tasks' =
                           create_video_task(video_tasks, handler.product_id,
                                             klingai_tasks + 1,
                                             res.prompts[n].prompt,
                                             res.prompts[n].type, now)
                      /\ pollers' = Append(pollers,
                           NewPoller(handler.chat_id, <<Len(video_tasks) + 1>>, 0, 0))
                      /\ regen_log' = [old |-> handler.task_id,
                                       new |-> Len(video_tasks) + 1,
                                       prompts |-> logged, outcome |-> out]
                 ELSE /\ regen_log' = [old |-> handler.task_id, new |-> 0,
                                       prompts |-> logged, outcome |-> out]
                      /\ UNCHANGED <<klingai_tasks, video_tasks, pollers>>
  /\ UNCHANGED <<now, products, generation_sessions, runs, messages, gate_log>>

(***************************************************************************)
(* The environment: what the catalog, the Curator, the render service and  *)
(* the messenger may answer.                                               *)
(***************************************************************************)
Hours == {DAILY_GENERATION_HOUR_UTC, 12, 20}
RunHours == {DAILY_GENERATION_HOUR_UTC, 12}

Item(cid) == [cscart_id |-> cid, name |-> "n1"]

Answers ==
  {[kind |-> "ok", new_products |-> <<Item(1)>>, popular_products |-> <<Item(1)>>],
   [kind |-> "error", new_products |-> <<>>, popular_products |-> <<>>]}

ScoreResponses ==
  {[kind |-> "ranked",
    ranked |-> <<[cscart_id |-> 1, score |-> 7, selected |-> "yes"]>>],
   [kind |-> "error", ranked |-> <<>>]}

PromptResponses ==
  {[kind |-> "prompts", prompts |-> <<[type |-> "detail", prompt |-> "text"]>>],
   [kind |-> "error", prompts |-> <<>>]}

SubmitOutcomes == {"ok", "error"}
PollOutcomes == {"succeed", "failed"}
SendOutcomes == {"video", "raise"}
Notices == {"ok"}
Edits == {"ok", "raise"}

(***************************************************************************)
(* Spec: the two triggers, the pipeline stages and the pollers, from the   *)
(* empty database.                                                         *)
(***************************************************************************)
Next ==
  \/ CronTick(RunHours)
  \/ \E admin \in TELEGRAM_ADMIN_IDS : CmdGenerate(admin)
  \/ \E r \in DOMAIN runs : SchedStart(r)
  \/ \E r \in DOMAIN runs : Fetch(r, Answers)
  \/ \E r \in DOMAIN runs : Score(r, ScoreResponses)
  \/ \E r \in DOMAIN runs : Persist(r)
  \/ \E r \in DOMAIN runs : Gate(r, PromptResponses)
  \/ \E r \in DOMAIN runs : Submit(r, SubmitOutcomes)
  \/ \E r \in DOMAIN runs : Dispatch(r)
  \/ \E r \in DOMAIN runs : SchedPoll(r, PollOutcomes)
  \/ \E r \in DOMAIN runs : SchedSend(r, SendOutcomes)
  \/ \E r \in DOMAIN runs : SchedStoreMsg(r)
  \/ \E p \in DOMAIN pollers : PollerPoll(p, PollOutcomes, Notices)
  \/ \E p \in DOMAIN pollers : PollerSend(p, SendOutcomes)
  \/ \E p \in DOMAIN pollers : PollerStoreMsg(p)

Spec == Init /\ [][Next]_vars

(***************************************************************************)
(* Observers over the tables.                                              *)
(***************************************************************************)
\* the instant a job was created, read back from its created_at
CreatedInstant(task) == task.created_at.date * 24 + task.created_at.time

\* the catalog id of the Item a job belongs to
ItemOf(task) == products[task.product_id].cscart_id

(***************************************************************************)
(* SpecStore: the database API of models.py used on its own, as            *)
(* test_data.test_database does: upsert an item, create a job for it, ask  *)
(* the idempotency check, while the clock runs over two UTC days.          *)
(***************************************************************************)
StoreUpsert(cscart_id, name, ai_score) ==
  /\ products' = upsert_product(products, cscart_id, name, ai_score)
  /\ UNCHANGED <<now, video_tasks, generation_sessions, klingai_tasks, runs,
                 pollers, messages, handler, gate_log, regen_log>>

StoreCreateTask(product_id, prompt_type) ==
  /\ product_id \in DOMAIN products
  /\ Len(video_tasks) < MaxTasks
  /\ klingai_tasks' = klingai_tasks + 1
  /\ video_tasks' = create_video_task(video_tasks, product_id, klingai_tasks + 1,
                                      "text", prompt_type, now)
  /\ UNCHANGED <<now, products, generation_sessions, runs, pollers, messages,
                 handler, gate_log, regen_log>>

StoreCheck(cscart_id) ==
  /\ gate_log' = [cscart_id |-> cscart_id, at |-> now,
                  result |-> product_has_video_today(video_tasks, products,
                                                     cscart_id, now),
                  tasks |-> Len(video_tasks), run |-> 0]
  /\ UNCHANGED <<now, products, video_tasks, generation_sessions, klingai_tasks,
                 runs, pollers, messages, handler, regen_log>>

NextStore ==
  \/ ClockTick(Hours)
  \/ \E cscart_id \in CscartIds : StoreUpsert(cscart_id, "n1", 5)
  \/ \E product_id \in 1..NumItems, prompt_type \in PromptTypes :
       StoreCreateTask(product_id, prompt_type)
  \/ \E cscart_id \in CscartIds : StoreCheck(cscart_id)

SpecStore == Init /\ [][NextStore]_vars

\* the jobs of the checked item that existed when the last check ran
CheckedJobs ==
  {i \in 1..gate_log.tasks : ItemOf(video_tasks[i]) = gate_log.cscart_id}

SameBusinessDay(t1, t2) == BusinessDate(t1) = BusinessDate(t2)

\* C3: once a job exists for an item, the idempotency check answers "already
\* has a job" whenever it runs in the business day of that job (however
\* often: a check changes no table), and answers "no job" when every job of
\* the item was created on an earlier business day.
C3_CheckWithinDay ==
  (gate_log.cscart_id # 0 /\ CheckedJobs # {}) =>
     (gate_log.result <=>
        \E i \in CheckedJobs :
           SameBusinessDay(CreatedInstant(video_tasks[i]), gate_log.at))

\* C4: the day boundary of the check is midnight UTC+5: a job created before
\* midnight UTC and checked after it, but within one UTC+5 calendar day,
\* counts as created today.
C4_BusinessDayBoundary ==
  \A i \in 1..Len(video_tasks) :
     (/\ i \in CheckedJobs
      /\ UtcDate(CreatedInstant(video_tasks[i])) # UtcDate(gate_log.at)
      /\ SameBusinessDay(CreatedInstant(video_tasks[i]), gate_log.at))
       => gate_log.result

(***************************************************************************)
(* Duplicate work across runs.                                             *)
(***************************************************************************)
\* run q had ended when run r began
EndedBefore(q, r) == q \in runs[r].after

Overlapping(q, r) == q # r /\ ~EndedBefore(q, r) /\ ~EndedBefore(r, q)

\* jobs x and y belong to one item and were created in one business day
SameItemSameDay(x, y) ==
  /\ ItemOf(video_tasks[x]) = ItemOf(video_tasks[y])
  /\ SameBusinessDay(CreatedInstant(video_tasks[x]), CreatedInstant(video_tasks[y]))

\* C1: when a run has created a job for an item, a run that begins after it
\* has ended, on the same business day, is answered "already has a job" at
\* the gate for that item and creates no job for it, whichever trigger
\* started either run.
C1_SequentialIdempotency ==
  \A r \in DOMAIN runs : \A q \in runs[r].after :
     \A x \in Range(runs[q].task_ids) :
        /\ \A y \in Range(runs[r].task_ids) : ~SameItemSameDay(x, y)
        /\ (/\ gate_log.run = r
            /\ gate_log.cscart_id = ItemOf(video_tasks[x])
            /\ SameBusinessDay(CreatedInstant(video_tasks[x]), gate_log.at))
             => gate_log.result

\* C2: a manual and a scheduled run that overlap in time never both create
\* jobs for one item in one business day.
C2_NoDuplicateUnderInterleaving ==
  \A r, q \in DOMAIN runs :
     (/\ runs[r].trigger = "manual"
      /\ runs[q].trigger = "scheduled"
      /\ Overlapping(q, r))
       => \A x \in Range(runs[r].task_ids), y \in Range(runs[q].task_ids) :
             ~SameItemSameDay(x, y)

(***************************************************************************)
(* SpecApproval: the scheduled run hands every finished job to every       *)
(* operator; the operators answer with callbacks, in any order and from    *)
(* any keyboard still attached; regenerated jobs are polled in background. *)
(***************************************************************************)
\* the cron trigger has just fired for the first time
InitApproval ==
  /\ now = DAILY_GENERATION_HOUR_UTC
  /\ products = <<>>
  /\ video_tasks = <<>>
  /\ generation_sessions = <<>>
  /\ klingai_tasks = 0
  /\ runs = <<RunRecord("scheduled", 0, {})>>
  /\ pollers = <<>>
  /\ messages = <<>>
  /\ handler = Idle
  /\ gate_log = NoGate
  /\ regen_log = NoRegen

OneAnswer ==
  {[kind |-> "ok", new_products |-> <<Item(1)>>, popular_products |-> <<>>]}

OneScore ==
  {[kind |-> "ranked",
    ranked |-> <<[cscart_id |-> 1, score |-> 7, selected |-> "yes"]>>]}

OnePrompt ==
  {[kind |-> "prompts", prompts |-> <<[type |-> "detail", prompt |-> "text"]>>]}

\* what the Curator may return to a regeneration
RegenResponses ==
  {[kind |-> "prompts", prompts |-> <<[type |-> "detail", prompt |-> "text"]>>],
   [kind |-> "prompts", prompts |-> <<[type |-> "lifestyle", prompt |-> "text"]>>],
   [kind |-> "prompts", prompts |-> <<[type |-> "lifestyle", prompt |-> "text"],
                                      [type |-> "detail", prompt |-> "text"]>>],
   [kind |-> "prompts", prompts |-> <<[type |-> "detail", prompt |-> "none"]>>],
   [kind |-> "prompts", prompts |-> <<>>],
   [kind |-> "unparseable", prompts |-> <<>>],
   [kind |-> "error", prompts |-> <<>>]}

HandoffOutcomes == {"video", "text"}

NextApproval ==
  \/ \E r \in DOMAIN runs : SchedStart(r)
  \/ \E r \in DOMAIN runs : Fetch(r, OneAnswer)
  \/ \E r \in DOMAIN runs : Score(r, OneScore)
  \/ \E r \in DOMAIN runs : Persist(r)
  \/ \E r \in DOMAIN runs : Gate(r, OnePrompt)
  \/ \E r \in DOMAIN runs : Submit(r, {"ok"})
  \/ \E r \in DOMAIN runs : Dispatch(r)
  \/ \E r \in DOMAIN runs : SchedPoll(r, PollOutcomes)
  \/ \E r \in DOMAIN runs : SchedSend(r, HandoffOutcomes)
  \/ \E r \in DOMAIN runs : SchedStoreMsg(r)
  \/ \E p \in DOMAIN pollers : PollerPoll(p, PollOutcomes, Notices)
  \/ \E p \in DOMAIN pollers : PollerSend(p, HandoffOutcomes)
  \/ \E p \in DOMAIN pollers : PollerStoreMsg(p)
  \/ \E m \in DOMAIN messages : Approve(m, Edits)
  \/ \E m \in DOMAIN messages : Reject(m, Edits)
  \/ \E m \in DOMAIN messages : Publish(m, Edits)
  \/ \E m \in DOMAIN messages : Details(m)
  \/ \E m \in DOMAIN messages : RegenerateBegin(m, Edits)
  \/ RegenerateFinish(RegenResponses, SubmitOutcomes)

SpecApproval == InitApproval /\ [][NextApproval]_vars

(***************************************************************************)
(* The lifecycle of a job under polls and callbacks.                       *)
(***************************************************************************)
StatusOf(i) == video_tasks[i].status

\* the lifecycle stage of a status
Stage(status) ==
  CASE status = "submitted" -> 0
    [] status \in {"succeed", "failed"} -> 1
    [] status \in {"approved", "rejected"} -> 2
    [] status = "published" -> 3

\* C5: in every step that makes a job approved, the job was succeeded just
\* before; an approve on a submitted, failed, rejected or published job leaves
\* its status as it was.
C5_ApprovedOnlyFromSucceeded ==
  [][\A i \in DOMAIN video_tasks :
       (video_tasks'[i].status = "approved" /\ StatusOf(i) # "approved")
          => StatusOf(i) = "succeed"]_vars

\* C6: in every step that makes a job published, the job was approved just
\* before; a publish arriving for a job rejected or regenerated in the
\* meantime does not publish it.
C6_PublishedOnlyFromApproved ==
  [][\A i \in DOMAIN video_tasks :
       (video_tasks'[i].status = "published" /\ StatusOf(i) # "published")
          => StatusOf(i) = "approved"]_vars

\* C7: no step moves a job to an earlier lifecycle stage: a published job
\* never becomes approved or rejected, an approved or rejected job never
\* becomes succeeded again, a failed job keeps its status; and a step of a
\* regeneration changes the regenerated job only by marking it rejected.
C7_NeverBackward ==
  [][\A i \in DOMAIN video_tasks :
       /\ Stage(video_tasks'[i].status) >= Stage(StatusOf(i))
       /\ StatusOf(i) = "failed" => video_tasks'[i].status = "failed"
       /\ (handler'.kind = "regenerate" /\ handler.kind = "idle"
             /\ handler'.task_id = i)
            => video_tasks'[i] = [video_tasks[i] EXCEPT
                                    !.status = "rejected",
                                    !.updated_at = video_tasks'[i].updated_at]]_vars

(***************************************************************************)
(* Regeneration.                                                           *)
(***************************************************************************)
\* a step in which _handle_regenerate ends; J is the job it was asked for
RegenerateEnds ==
  \/ handler.kind = "regenerate" /\ handler'.kind = "idle"
  \/ handler.kind = "idle" /\ handler'.kind = "idle" /\ regen_log' # regen_log

RegeneratedJob == IF handler.kind = "regenerate" THEN handler.task_id ELSE regen_log'.old

\* the step adds exactly one row: a submitted job for the item of J with a
\* remote handle no other row has
OneNewJobFor(J) ==
  /\ Len(video_tasks') = Len(video_tasks) + 1
  /\ LET new == video_tasks'[Len(video_tasks')]
     IN /\ new.status = "submitted"
        /\ new.product_id = video_tasks[J].product_id
        /\ \A i \in DOMAIN video_tasks :
              video_tasks[i].klingai_task_id # new.klingai_task_id

\* J keeps its row, instruction text, result reference and item link
SameHistory(J) ==
  /\ J \in DOMAIN video_tasks'
  /\ video_tasks'[J].prompt = video_tasks[J].prompt
  /\ video_tasks'[J].video_url = video_tasks[J].video_url
  /\ video_tasks'[J].product_id = video_tasks[J].product_id

\* a step of _handle_regenerate for job J
RegenerateStep(J) ==
  \/ handler.kind = "regenerate" /\ handler.task_id = J
  \/ handler'.kind = "regenerate" /\ handler'.task_id = J
  \/ handler.kind = "idle" /\ regen_log' # regen_log /\ regen_log'.old = J

\* C8 as stated: every regenerate that has marked J rejected ends having
\* created exactly one new submitted job for the item of J, and leaves J's
\* id, instruction text, result reference and item link unchanged.
C8_RegenerateCreatesOne ==
  [][/\ RegenerateEnds =>
          /\ video_tasks'[RegeneratedJob].status = "rejected"
          /\ OneNewJobFor(RegeneratedJob)
     /\ \A J \in DOMAIN video_tasks : RegenerateStep(J) => SameHistory(J)]_vars

\* C8 as the code has it: a regenerate marks J rejected first and then
\* creates at most one new job: exactly one (submitted, for the item of J,
\* with a new handle) when the Curator returned a usable instruction and the
\* submission succeeded, none otherwise; J's id, instruction text, result
\* reference and item link are unchanged in either case.
C8_RegenerateCreatesAtMostOne ==
  [][/\ RegenerateEnds =>
          /\ video_tasks'[RegeneratedJob].status = "rejected"
          /\ IF regen_log'.outcome = "ok"
             THEN OneNewJobFor(RegeneratedJob)
                  /\ regen_log'.new = Len(video_tasks')
             ELSE Len(video_tasks') = Len(video_tasks) /\ regen_log'.new = 0
     /\ \A J \in DOMAIN video_tasks : RegenerateStep(J) => SameHistory(J)]_vars

\* a regeneration has replaced a rejected job by a new submitted one
C8_Witness ==
  /\ regen_log.new # 0
  /\ video_tasks[regen_log.old].status = "rejected"
  /\ video_tasks[regen_log.new].status = "submitted"
  /\ video_tasks[regen_log.new].product_id = video_tasks[regen_log.old].product_id

\* the batch the last regeneration received holds an instruction of type ty
BatchHas(ty) == \E n \in DOMAIN regen_log.prompts : regen_log.prompts[n].type = ty

InitOutcome ==
  /\ now = DAILY_GENERATION_HOUR_UTC
  /\ products = <<>>
  /\ video_tasks = <<>>
  /\ generation_sessions = <<>>
  /\ klingai_tasks = 0
  /\ pollers = <<>>
  /\ messages = <<>>
  /\ gate_log = NoGate
  /\ regen_log = NoRegen
  /\ \/ /\ runs = <<RunRecord("manual", 1, {})>>
        /\ handler = [Idle EXCEPT !.kind = "generate", !.run = 1]
     \/ /\ runs = <<RunRecord("scheduled", 0, {})>>
        /\ handler = Idle

OutcomeAnswers ==
  {[kind |-> "ok", new_products |-> <<Item(1), Item(2)>>,
    popular_products |-> <<Item(1)>>],
   [kind |-> "ok", new_products |-> <<>>, popular_products |-> <<>>],
   [kind |-> "error", new_products |-> <<>>, popular_products |-> <<>>]}

OutcomeScores ==
  {[kind |-> "ranked",
    ranked |-> <<[cscart_id |-> 1, score |-> 7, selected |-> "yes"],
                 [cscart_id |-> 2, score |-> 3, selected |-> "no"]>>],
   [kind |-> "ranked",
    ranked |-> <<[cscart_id |-> 1, score |-> 3, selected |-> "none"],
                 [cscart_id |-> 2, score |-> 7, selected |-> "none"]>>],
   [kind |-> "ranked",
    ranked |-> <<[cscart_id |-> 1, score |-> -1, selected |-> "yes"]>>],
   [kind |-> "ranked",
    ranked |-> <<[cscart_id |-> 1, score |-> 7, selected |-> "yes"],
                 [cscart_id |-> 0, score |-> 3, selected |-> "no"]>>],
   [kind |-> "ranked", ranked |-> <<>>],
   [kind |-> "unparseable", ranked |-> <<>>],
   [kind |-> "wrong_shape", ranked |-> <<>>],
   [kind |-> "error", ranked |-> <<>>]}

OutcomePrompts ==
  {[kind |-> "prompts", prompts |-> <<[type |-> "detail", prompt |-> "text"]>>],
   [kind |-> "unparseable", prompts |-> <<>>],
   [kind |-> "error", prompts |-> <<>>]}

AllPollOutcomes == {"succeed", "succeed_no_url", "failed", "timeout", "raise"}
AllSendOutcomes == {"video", "text", "raise"}
AllNotices == {"ok", "raise"}

NextOutcome ==
  \/ \E r \in DOMAIN runs : SchedStart(r)
  \/ \E r \in DOMAIN runs : Fetch(r, OutcomeAnswers)
  \/ \E r \in DOMAIN runs : Score(r, OutcomeScores)
  \/ \E r \in DOMAIN runs : Persist(r)
  \/ \E r \in DOMAIN runs : Gate(r, OutcomePrompts)
  \/ \E r \in DOMAIN runs : Submit(r, SubmitOutcomes)
  \/ \E r \in DOMAIN runs : Dispatch(r)
  \/ \E r \in DOMAIN runs : SchedPoll(r, AllPollOutcomes)
  \/ \E r \in DOMAIN runs : SchedSend(r, AllSendOutcomes)
  \/ \E r \in DOMAIN runs : SchedStoreMsg(r)
  \/ \E p \in DOMAIN pollers : PollerPoll(p, AllPollOutcomes, AllNotices)
  \/ \E p \in DOMAIN pollers : PollerSend(p, AllSendOutcomes)
  \/ \E p \in DOMAIN pollers : PollerStoreMsg(p)

SpecOutcome == InitOutcome /\ [][NextOutcome]_vars

(***************************************************************************)
(* The PipelineRun rows (table generation_sessions).                       *)
(***************************************************************************)
\* the run has not yet left its first stage
AtStart(run) == run.pc \in {"start", "fetch"}

\* the status of the row of a run ("none": the run has no row)
RunStatus(run) ==
  IF run.session_id \in DOMAIN generation_sessions
  THEN generation_sessions[run.session_id].status
  ELSE "none"

\* C11: every invocation has, from its start on, exactly one PipelineRun row
\* of its own, created with status running, and no step removes a row; an
\* invocation that aborts at fetch or curation still has its row.
C11_RunRowFromStart ==
  [][/\ Len(generation_sessions') >= Len(generation_sessions)
     /\ \A n \in DOMAIN generation_sessions' :
           n \notin DOMAIN generation_sessions =>
              generation_sessions'[n].status = "running"
     /\ \A r \in DOMAIN runs' :
           ~AtStart(runs'[r]) =>
              /\ runs'[r].session_id \in DOMAIN generation_sessions'
              /\ \A q \in DOMAIN runs' :
                    q # r => runs'[q].session_id # runs'[r].session_id]_vars

\* C12: a run whose de-duplicated fetch result is empty aborts there: its
\* PipelineRun is recorded failed, the Curator is not called, nothing is
\* upserted, no job is created and the fetch is not repeated; for the manual
\* and for the scheduled trigger alike.
C12_EmptyFetchAborts ==
  \A r \in DOMAIN runs :
     (~AtStart(runs[r]) /\ ~runs[r].raised /\ runs[r].all_products = <<>>) =>
        /\ runs[r].pc = "done"
        /\ RunStatus(runs[r]) = "failed"
        /\ runs[r].curation.kind = "none"
        /\ products = <<>>
        /\ runs[r].task_ids = <<>>

\* C13: a run whose scoring call fails outright aborts: it creates no job
\* and its PipelineRun ends failed; for the manual and for the scheduled
\* trigger alike.
C13_CurationErrorAborts ==
  \A r \in DOMAIN runs :
     runs[r].curation.kind = "error" =>
        /\ runs[r].pc = "done"
        /\ runs[r].task_ids = <<>>
        /\ RunStatus(runs[r]) = "failed"

\* C14: a finished run's PipelineRun is completed exactly when the run
\* reached its poll and handoff stage, however its jobs ended; in particular
\* a run that reached that stage is never recorded failed.
C14_CompletedIffPolled ==
  \A r \in DOMAIN runs :
     (runs[r].pc = "done" /\ RunStatus(runs[r]) # "none") =>
        (RunStatus(runs[r]) = "completed" <=> runs[r].polling)

(***************************************************************************)
(* SpecOutcomeFair: SpecOutcome where a coroutine that can take a step     *)
(* eventually takes one: every await of the pipeline and of the background *)
(* poller returns or raises, and the event loop then resumes the           *)
(* coroutine.                                                              *)
(***************************************************************************)
SpecOutcomeFair == SpecOutcome /\ WF_vars(NextOutcome)

\* the status of PipelineRun row n, "none" while there is no such row
SessionStatus(n) ==
  IF n \in DOMAIN generation_sessions THEN generation_sessions[n].status
  ELSE "none"

\* C15: every PipelineRun row that is running eventually is completed or
\* failed, whatever the collaborators answer.
C15_RunEventuallyEnds ==
  \A n \in 1..MaxRuns :
     (SessionStatus(n) = "running") ~> (SessionStatus(n) \in {"completed", "failed"})

\* a scoring response that is not a well-formed ranking: text that is not
\* JSON, JSON of another shape, or a ranking with an entry that lacks its
\* score, its selected flag or its id
Malformed(resp) ==
  \/ resp.kind \in {"unparseable", "wrong_shape"}
  \/ /\ resp.kind = "ranked"
     /\ \E i \in DOMAIN resp.ranked :
          \/ resp.ranked[i].score = -1
          \/ resp.ranked[i].selected = "none"
          \/ resp.ranked[i].cscart_id = 0

\* C16: a malformed scoring response is never fatal: no run that got one
\* is ended by an exception of its scoring or persist stage.
C16_MalformedNotFatal ==
  \A r \in DOMAIN runs :
     Malformed(runs[r].curation) => runs[r].raised_at \notin {"score", "persist"}

(***************************************************************************)
(* SpecSelect: the pipeline up to its fan-out under every ranking of up to *)
(* MaxRanked entries in which no entry is flagged selected (score 3 with   *)
(* the flag absent, score 7 with the flag false, or the score absent), and *)
(* under unparseable text, for a fetch of MaxRanked items or of one.       *)
(***************************************************************************)
SelectMarks == {<<3, "none">>, <<7, "no">>, <<-1, "no">>}

SelectAnswers ==
  {[kind |-> "ok", new_products |-> [n \in 1..MaxRanked |-> Item(n)],
    popular_products |-> <<Item(1)>>],
   [kind |-> "ok", new_products |-> <<Item(1)>>, popular_products |-> <<>>]}

SelectResponses ==
  {[kind |-> "unparseable", ranked |-> <<>>]} \cup
  UNION {{[kind |-> "ranked",
           ranked |-> [i \in 1..n |-> [cscart_id |-> i, score |-> f[i][1],
                                       selected |-> f[i][2]]]] :
            f \in [1..n -> SelectMarks]} : n \in 0..MaxRanked}

NextSelect ==
  \/ \E r \in DOMAIN runs : SchedStart(r)
  \/ \E r \in DOMAIN runs : Fetch(r, SelectAnswers)
  \/ \E r \in DOMAIN runs : Score(r, SelectResponses)
  \/ \E r \in DOMAIN runs : Persist(r)
  \/ \E r \in DOMAIN runs : Gate(r, OnePrompt)
  \/ \E r \in DOMAIN runs : Submit(r, SubmitOutcomes)
  \/ \E r \in DOMAIN runs : Dispatch(r)

SpecSelect == InitOutcome /\ [][NextSelect]_vars

\* the select count of a run: PRODUCTS_TO_SELECT_DAILY in the scheduled
\* job, the literal of scored[:5] in cmd_generate
TopN(run) ==
  IF run.trigger = "manual" THEN MANUAL_TOP_N ELSE PRODUCTS_TO_SELECT_DAILY

Min(a, b) == IF a < b THEN a ELSE b

\* the run got a ranking from its scoring call and none of its entries
\* was flagged selected
FellBack(run) ==
  /\ run.curation.kind = "ranked"
  /\ run.raised_at # "score"
  /\ run.pc # "score"
  /\ FilterSelected(run.returned) = <<>>

\* the position an id has in the returned ranking
PosOf(ranking, cid) == CHOOSE n \in DOMAIN ranking : ranking[n].cscart_id = cid

IdsIn(s) == {s[n].cscart_id : n \in DOMAIN s}

\* entry a of the ranking goes before entry b: higher score, or equal
\* score and earlier in the response
Before(ranking, a, b) ==
  LET ea == ranking[PosOf(ranking, a)]
      eb == ranking[PosOf(ranking, b)]
  IN \/ ScoreOf(ea) > ScoreOf(eb)
     \/ ScoreOf(ea) = ScoreOf(eb) /\ PosOf(ranking, a) < PosOf(ranking, b)

\* C17: when no entry of the ranking is flagged selected, the run selects
\* exactly the min(N, number of entries) entries of highest score, equal
\* scores in response order, and marks exactly those selected; N is the
\* same for the manual and the scheduled run.
C17_FallbackSelection ==
  /\ MANUAL_TOP_N = PRODUCTS_TO_SELECT_DAILY
  /\ \A r \in DOMAIN runs :
       FellBack(runs[r]) =>
         LET run == runs[r]
             taken == IdsIn(run.selected)
         IN /\ Len(run.selected) = Min(TopN(run), Len(run.returned))
            /\ Cardinality(taken) = Len(run.selected)
            /\ taken \subseteq IdsIn(run.returned)
            /\ \A a \in taken : \A b \in IdsIn(run.returned) \ taken :
                  Before(run.returned, a, b)
            /\ \A m, n \in DOMAIN run.selected :
                  m < n => Before(run.returned, run.selected[m].cscart_id,
                                  run.selected[n].cscart_id)
            /\ \A n \in DOMAIN run.selected : IsSelected(run.selected[n])
            /\ Len(run.scored) = Len(run.returned)
            /\ \A n \in DOMAIN run.scored :
                  IsSelected(run.scored[n]) <=> run.scored[n].cscart_id \in taken

\* a fallback over more than N entries where the cut falls between two
\* entries of equal score
C17_Witness ==
  \E r \in DOMAIN runs :
     /\ FellBack(runs[r])
     /\ Len(runs[r].returned) > TopN(runs[r])
     /\ \E a \in IdsIn(runs[r].selected) :
          \E b \in IdsIn(runs[r].returned) \ IdsIn(runs[r].selected) :
             ScoreOf(runs[r].returned[PosOf(runs[r].returned, a)]) =
             ScoreOf(runs[r].returned[PosOf(runs[r].returned, b)])

\* the store row of an item, by its external id
StoredScore(cid) == products[ProductIdOf(products, cid)].ai_score

\* C18: on unparseable text the scoring call does not raise; it returns one
\* entry per fetched item, in fetch order, with the default score 5 and with
\* exactly the first min(N, number of items) entries selected; the run
\* selects those entries and goes on: once its persist stage is over every
\* fetched item is stored with score 5, and no exception of the scoring or
\* persist stage ends the run.
C18_UnparseableFallsBack ==
  \A r \in DOMAIN runs :
     runs[r].curation.kind = "unparseable" =>
        LET run == runs[r]
            n_sel == Min(PRODUCTS_TO_SELECT_DAILY, Len(run.all_products))
        IN /\ run.raised_at \notin {"score", "persist"}
           /\ run.pc # "score"
           /\ Len(run.returned) = Len(run.all_products)
           /\ \A n \in DOMAIN run.returned :
                 /\ run.returned[n].cscart_id = run.all_products[n].cscart_id
                 /\ run.returned[n].score = 5
                 /\ IsSelected(run.returned[n]) <=> n <= n_sel
           /\ run.scored = run.returned
           /\ run.selected = SubSeq(run.returned, 1, n_sel)
           /\ run.pc # "persist" =>
                 \A n \in DOMAIN run.all_products :
                    /\ ProductIdOf(products, run.all_products[n].cscart_id) # 0
                    /\ StoredScore(run.all_products[n].cscart_id) = 5

\* a run over more than N items that got unparseable text and has created
\* a job in its fan-out
C18_Witness ==
  \E r \in DOMAIN runs :
     /\ runs[r].curation.kind = "unparseable"
     /\ Len(runs[r].all_products) > PRODUCTS_TO_SELECT_DAILY
     /\ runs[r].pc = "dispatch"
     /\ runs[r].task_ids # <<>>

(***************************************************************************)
(* SpecPersist: a manual and a scheduled run side by side, up to their     *)
(* fan-out, under rankings that score the same items differently, repeat   *)
(* an id, name an id that was not fetched or leave a score out.            *)
(***************************************************************************)
InitPersist ==
  /\ now = DAILY_GENERATION_HOUR_UTC
  /\ products = <<>>
  /\ video_tasks = <<>>
  /\ generation_sessions = <<>>
  /\ klingai_tasks = 0
  /\ pollers = <<>>
  /\ messages = <<>>
  /\ gate_log = NoGate
  /\ regen_log = NoRegen
  /\ runs = <<RunRecord("manual", 1, {}), RunRecord("scheduled", 0, {})>>
  /\ handler = [Idle EXCEPT !.kind = "generate", !.run = 1]

PersistAnswers ==
  {[kind |-> "ok", new_products |-> <<Item(1), Item(2)>>, popular_products |-> <<>>],
   [kind |-> "ok", new_products |-> <<Item(1)>>, popular_products |-> <<>>]}

PersistScores ==
  {[kind |-> "ranked",
    ranked |-> <<[cscart_id |-> 1, score |-> 7, selected |-> "yes"],
                 [cscart_id |-> 2, score |-> 3, selected |-> "no"]>>],
   [kind |-> "ranked",
    ranked |-> <<[cscart_id |-> 1, score |-> 3, selected |-> "no"],
                 [cscart_id |-> 2, score |-> 7, selected |-> "yes"]>>],
   [kind |-> "ranked",
    ranked |-> <<[cscart_id |-> 1, score |-> 7, selected |-> "yes"],
                 [cscart_id |-> 1, score |-> 3, selected |-> "no"]>>],
   [kind |-> "ranked",
    ranked |-> <<[cscart_id |-> 1, score |-> 7, selected |-> "yes"],
                 [cscart_id |-> 2, score |-> -1, selected |-> "no"]>>]}

NextPersist ==
  \/ \E r \in DOMAIN runs : SchedStart(r)
  \/ \E r \in DOMAIN runs : Fetch(r, PersistAnswers)
  \/ \E r \in DOMAIN runs : Score(r, PersistScores)
  \/ \E r \in DOMAIN runs : Persist(r)
  \/ \E r \in DOMAIN runs : Gate(r, OnePrompt)
  \/ \E r \in DOMAIN runs : Submit(r, SubmitOutcomes)
  \/ \E r \in DOMAIN runs : Dispatch(r)

SpecPersist == InitPersist /\ [][NextPersist]_vars

\* the persist stage of the run is over
PersistOver(run) ==
  \/ run.pc \in {"gate", "submit", "dispatch", "background", "poll", "send",
                 "store_msg"}
  \/ /\ run.pc = "done"
     /\ run.curation.kind # "none"
     /\ run.raised_at \notin {"score", "persist"}

\* the last entry the run's scored list has for an id
LastEntry(scored, cid) ==
  scored[CHOOSE n \in DOMAIN scored :
            /\ scored[n].cscart_id = cid
            /\ \A m \in DOMAIN scored : scored[m].cscart_id = cid => m <= n]

\* the scores other runs have written for an id so far
WrittenByOthers(r, cid) ==
  UNION {{ScoreOf(runs[q].scored[m]) :
            m \in {y \in 1..Len(runs[q].scored) :
                     y < runs[q].u /\ runs[q].scored[y].cscart_id = cid}} :
         q \in {x \in DOMAIN runs :
                  x # r /\ InProductMap(runs[x].all_products, cid)}}

\* C19 as stated: once the persist stage of a run is over, every entry of its
\* scored list, selected or not, has a store record with the entry's score.
C19_EveryScoredStored ==
  \A r \in DOMAIN runs :
     PersistOver(runs[r]) =>
        \A n \in DOMAIN runs[r].scored :
           /\ ProductIdOf(products, runs[r].scored[n].cscart_id) # 0
           /\ StoredScore(runs[r].scored[n].cscart_id) = ScoreOf(runs[r].scored[n])

\* C19: once the persist stage of a run is over, every scored entry whose
\* id the run fetched, selected or not, has a store record; its score is
\* the score of the run's last entry for that id (0 when the entry has none)
\* or a score another run has written for the id; no id is stored that no
\* run fetched; and no job of a run exists before its persist stage is over.
C19_FetchedScoredStored ==
  /\ \A r \in DOMAIN runs :
        PersistOver(runs[r]) =>
           \A n \in DOMAIN runs[r].scored :
              LET cid == runs[r].scored[n].cscart_id
              IN InProductMap(runs[r].all_products, cid) =>
                   /\ ProductIdOf(products, cid) # 0
                   /\ StoredScore(cid) \in
                        {ScoreOf(LastEntry(runs[r].scored, cid))}
                           \cup WrittenByOthers(r, cid)
  /\ \A k \in DOMAIN products :
        \E r \in DOMAIN runs : InProductMap(runs[r].all_products, products[k].cscart_id)
  /\ \A r \in DOMAIN runs : runs[r].task_ids # <<>> => PersistOver(runs[r])

\* a run whose persist stage is just over, before any job of it: an entry
\* that was not selected is stored with its score
C19_Witness ==
  \E r \in DOMAIN runs :
     /\ runs[r].pc = "gate"
     /\ runs[r].task_ids = <<>>
     /\ \E n \in DOMAIN runs[r].scored :
          /\ ~IsSelected(runs[r].scored[n])
          /\ InProductMap(runs[r].all_products, runs[r].scored[n].cscart_id)
          /\ StoredScore(runs[r].scored[n].cscart_id) = ScoreOf(runs[r].scored[n])

\* C20: a submission that fails adds no job, leaves the jobs there are
\* as they were and lets the loop go on with the next instruction; and a
\* finished run that had a submission fail and has created a job has
\* reached its poll stage and is recorded completed.
C20_SubmitFailureIsolated ==
  [][/\ \A r \in DOMAIN runs :
           (runs[r].pc = "submit" /\ runs[r].rejected = 0 /\ runs'[r].rejected = 1) =>
              /\ video_tasks' = video_tasks
              /\ runs'[r].task_ids = runs[r].task_ids
              /\ runs'[r].pc = "submit"
              /\ runs'[r].j = runs[r].j + 1
              /\ runs'[r].i = runs[r].i
     /\ \A r \in DOMAIN runs' :
           (/\ runs'[r].rejected = 1
            /\ runs'[r].task_ids # <<>>
            /\ runs'[r].pc = "done") =>
              /\ runs'[r].polling
              /\ generation_sessions'[runs'[r].session_id].status = "completed"]_vars

\* C21: when generate_prompts fails for one selected item, the run is not
\* aborted: the item is skipped, the loop goes on with the next selected
\* item and the jobs the run has are kept for polling.
C21_PromptFailureSkipsItem ==
  [][\A r \in DOMAIN runs :
        (runs[r].pc = "gate" /\ runs'[r].raised_at = "gate") =>
           /\ runs'[r].pc = "gate"
           /\ runs'[r].i = runs[r].i + 1
           /\ runs'[r].task_ids = runs[r].task_ids
           /\ RunStatus(runs[r])' # "failed"]_vars

(***************************************************************************)
(* The render service client, one request at a time.                       *)
(*                                                                         *)
(* get_task_status answers one status query.  The request ends in one of:  *)
(* "succeed" (code 0, task_status succeed, a video with url),              *)
(* "succeed_no_url" (succeed without videos), "failed" (task_status        *)
(* failed), "processing" (any other task_status), "api_error" (a body      *)
(* whose code is not 0), "client_error" (aiohttp.ClientError: connection   *)
(* error, HTTP error status through raise_for_status, wrong content type)  *)
(* or "bad_body" (a body with code 0 and no data, or a body that is not    *)
(* JSON: KeyError or JSONDecodeError, which the function does not catch).  *)
(***************************************************************************)
get_task_status(answer) ==
  CASE answer = "succeed" ->
         [kind |-> "ok", status |-> "succeed", video_url |-> "url", error |-> "none"]
    [] answer = "succeed_no_url" ->
         [kind |-> "ok", status |-> "succeed", video_url |-> "", error |-> "none"]
    [] answer = "failed" ->
         [kind |-> "ok", status |-> "failed", video_url |-> "",
          error |-> "Generation failed"]
    [] answer = "api_error" ->
         [kind |-> "ok", status |-> "failed", video_url |-> "",
          error |-> "message"]
    [] answer = "client_error" ->
         [kind |-> "ok", status |-> "error", video_url |-> "", error |-> "str(e)"]
    [] answer = "processing" ->
         [kind |-> "ok", status |-> "processing", video_url |-> "", error |-> "none"]
    [] OTHER -> [kind |-> "raise", status |-> "", video_url |-> "", error |-> "none"]

\* klingai.poll_task_until_done, the loop test: once elapsed has reached the
\* timeout the call returns {"status": "failed", "error": "Timeout"}
PollTimedOut(st) == ~(st.elapsed < KLINGAI_TASK_TIMEOUT)

\* klingai.poll_task_until_done, one pass of "while elapsed < timeout" for
\* job index k: a query, then either the return of a terminal result or a
\* sleep of one interval
PollIteration(st0, k, answer) ==
  LET st == IF st0.polled = k THEN st0 ELSE [NoPoll EXCEPT !.polled = k]
      res == get_task_status(answer)
      asked == [st EXCEPT !.queries = st.queries + 1, !.answer = answer]
  IN IF PollTimedOut(st)
     THEN [st EXCEPT !.out = "timeout", !.error = "Timeout"]
     ELSE IF res.kind = "raise" THEN [asked EXCEPT !.out = "raise"]
     ELSE IF res.status = "succeed"
          THEN [asked EXCEPT !.out = IF res.video_url = "" THEN "succeed_no_url"
                                     ELSE "succeed"]
     ELSE IF res.status = "failed"
          THEN [asked EXCEPT !.out = "failed", !.error = res.error]
     ELSE [asked EXCEPT !.elapsed = st.elapsed + KLINGAI_POLLING_INTERVAL]

\* poll_task_until_done has returned (or raised) for job index k
PollReturned(st, k) == st.polled = k /\ st.out # "none"

\* daily_generation_job inside poll_task_until_done for its job k
SchedQuery(r, answers) ==
  /\ r \in DOMAIN runs
  /\ runs[r].pc = "poll"
  /\ runs[r].k <= Len(runs[r].task_ids)
  /\ ~PollReturned(runs[r].poll, runs[r].k)
  /\ \E answer \in answers :
       runs' = [runs EXCEPT ![r].poll = PollIteration(@, runs[r].k, answer)]
  /\ UNCHANGED <<now, products, video_tasks, generation_sessions, klingai_tasks,
                 pollers, messages, handler, gate_log, regen_log>>

\* daily_generation_job after poll_task_until_done: the result is persisted
\* (or the loop over the jobs is over)
SchedPolled(r) ==
  /\ r \in DOMAIN runs
  /\ runs[r].pc = "poll"
  /\ runs[r].k > Len(runs[r].task_ids) \/ PollReturned(runs[r].poll, runs[r].k)
  /\ SchedPoll(r, {runs[r].poll.out})

\* _poll_and_send_videos inside poll_task_until_done for its job k
PollerQuery(p, answers) ==
  /\ p \in DOMAIN pollers
  /\ pollers[p].pc = "poll"
  /\ pollers[p].k <= Len(pollers[p].task_ids)
  /\ ~PollReturned(pollers[p].poll, pollers[p].k)
  /\ \E answer \in answers :
       pollers' = [pollers EXCEPT ![p].poll = PollIteration(@, pollers[p].k, answer)]
  /\ UNCHANGED <<now, products, video_tasks, generation_sessions, klingai_tasks,
                 runs, messages, handler, gate_log, regen_log>>

\* _poll_and_send_videos after poll_task_until_done
PollerPolled(p, notices) ==
  /\ p \in DOMAIN pollers
  /\ pollers[p].pc = "poll"
  /\ pollers[p].k > Len(pollers[p].task_ids)
        \/ PollReturned(pollers[p].poll, pollers[p].k)
  /\ PollerPoll(p, {pollers[p].poll.out}, notices)

(***************************************************************************)
(* create_video_task posts one submission up to max_retries times.  A      *)
(* request ends in one of: "ok" (2xx, code 0, a task id), "rate_limited"   *)
(* (429), "server_error" (status >= 500), "rejected_status" (another 4xx:  *)
(* raise_for_status raises ClientResponseError, an aiohttp.ClientError),   *)
(* "network_error" (another aiohttp.ClientError), "rejected_code" (a body  *)
(* whose code is not 0: ValueError) or "bad_body" (no data.task_id:        *)
(* KeyError).                                                              *)
(***************************************************************************)
\* a back-off that would not grow with the attempt
FlatWait(attempt) == 5

RateLimitWait(attempt) == (2 ^ attempt) * 5

\* one pass of "for attempt in range(max_retries)"; the call raises
\* RuntimeError when the loop runs out
SubmitAttempt(st0, key, response) ==
  LET st == IF st0.key = key THEN st0 ELSE [NoSubmit EXCEPT !.key = key]
      made == [st EXCEPT !.attempts = st.attempts + 1, !.response = response,
                         !.history = Append(st.history, response)]
      last == st.attempt = max_retries - 1
      again(wait) == [made EXCEPT !.attempt = st.attempt + 1,
                                  !.slept = Append(st.slept, wait),
                                  !.out = IF last THEN "error" ELSE "none"]
  IN CASE response = "ok" -> [made EXCEPT !.out = "ok"]
       [] response = "rate_limited" -> again(RateLimitWait(st.attempt))
       [] response = "server_error" -> again(60)
       [] response \in {"rejected_status", "network_error"} ->
            IF last THEN [made EXCEPT !.out = "error"] ELSE again(5)
       [] OTHER -> [made EXCEPT !.out = "error"]

\* the instruction the fan-out loop of the run is at, <<0, 0>> when it is at
\* none that is submitted
InstructionKey(run) ==
  IF /\ run.pc = "submit"
     /\ run.j <= Len(run.prompts)
     /\ PromptText(run.prompts[run.j]) # ""
  THEN <<run.i, run.j>> ELSE <<0, 0>>

\* create_video_task has returned or raised for the instruction
SubmitReturned(run) ==
  run.submit.key = InstructionKey(run) /\ run.submit.out # "none"

\* the pipeline inside klingai.create_video_task
SubmitRequest(r, responses) ==
  /\ r \in DOMAIN runs
  /\ InstructionKey(runs[r]) # <<0, 0>>
  /\ ~SubmitReturned(runs[r])
  /\ \E response \in responses :
       runs' = [runs EXCEPT ![r].submit =
                   SubmitAttempt(@, InstructionKey(runs[r]), response)]
  /\ UNCHANGED <<now, products, video_tasks, generation_sessions, klingai_tasks,
                 pollers, messages, handler, gate_log, regen_log>>

\* the pipeline after klingai.create_video_task: the job row, or the logged
\* failure (or the loop over the instructions moves on)
Submitted(r) ==
  /\ r \in DOMAIN runs
  /\ runs[r].pc = "submit"
  /\ InstructionKey(runs[r]) = <<0, 0>> \/ SubmitReturned(runs[r])
  /\ Submit(r, {runs[r].submit.out})

(***************************************************************************)
(* SpecService: one manual or one scheduled run over one item with two     *)
(* instructions, every request to the render service taken singly.         *)
(***************************************************************************)
StatusAnswers ==
  {"succeed", "succeed_no_url", "failed", "processing", "api_error",
   "client_error", "bad_body"}

SubmitResponses ==
  {"ok", "rate_limited", "server_error", "rejected_status", "network_error",
   "rejected_code", "bad_body"}

ServiceAnswers ==
  {[kind |-> "ok", new_products |-> <<Item(1)>>, popular_products |-> <<>>]}

ServiceScores ==
  {[kind |-> "ranked",
    ranked |-> <<[cscart_id |-> 1, score |-> 7, selected |-> "yes"]>>]}

ServicePrompts ==
  {[kind |-> "prompts", prompts |-> <<[type |-> "detail", prompt |-> "text"],
                                      [type |-> "lifestyle", prompt |-> "text"]>>]}

NextService ==
  \/ \E r \in DOMAIN runs : SchedStart(r)
  \/ \E r \in DOMAIN runs : Fetch(r, ServiceAnswers)
  \/ \E r \in DOMAIN runs : Score(r, ServiceScores)
  \/ \E r \in DOMAIN runs : Persist(r)
  \/ \E r \in DOMAIN runs : Gate(r, ServicePrompts)
  \/ \E r \in DOMAIN runs : SubmitRequest(r, SubmitResponses)
  \/ \E r \in DOMAIN runs : Submitted(r)
  \/ \E r \in DOMAIN runs : Dispatch(r)
  \/ \E r \in DOMAIN runs : SchedQuery(r, StatusAnswers)
  \/ \E r \in DOMAIN runs : SchedPolled(r)
  \/ \E r \in DOMAIN runs : SchedSend(r, AllSendOutcomes)
  \/ \E r \in DOMAIN runs : SchedStoreMsg(r)
  \/ \E p \in DOMAIN pollers : PollerQuery(p, StatusAnswers)
  \/ \E p \in DOMAIN pollers : PollerPolled(p, AllNotices)
  \/ \E p \in DOMAIN pollers : PollerSend(p, AllSendOutcomes)
  \/ \E p \in DOMAIN pollers : PollerStoreMsg(p)

SpecService == InitOutcome /\ [][NextService]_vars

\* a status query was made in the step from poll state old to new
QueryStep(old, new) == new # old /\ new.out # "timeout"

\* answers that are neither a status nor a reported terminal failure
TransientAnswers == {"client_error", "api_error", "bad_body"}

\* C22: a status query that ends in an intermediate error does not end the
\* polling of the job: the loop goes on to its next interval and the job's
\* row is not touched.
C22_TransientErrorRetried ==
  [][/\ \A r \in DOMAIN runs :
           (QueryStep(runs[r].poll, runs'[r].poll)
              /\ runs'[r].poll.answer \in TransientAnswers) =>
              /\ runs'[r].poll.out = "none"
              /\ runs'[r].poll.elapsed = runs[r].poll.elapsed + KLINGAI_POLLING_INTERVAL
              /\ video_tasks' = video_tasks
     /\ \A p \in DOMAIN pollers :
           (QueryStep(pollers[p].poll, pollers'[p].poll)
              /\ pollers'[p].poll.answer \in TransientAnswers) =>
              /\ pollers'[p].poll.out = "none"
              /\ pollers'[p].poll.elapsed =
                    pollers[p].poll.elapsed + KLINGAI_POLLING_INTERVAL
              /\ video_tasks' = video_tasks]_vars

\* ceil(KLINGAI_TASK_TIMEOUT / KLINGAI_POLLING_INTERVAL)
MaxQueries ==
  (KLINGAI_TASK_TIMEOUT + KLINGAI_POLLING_INTERVAL - 1) \div KLINGAI_POLLING_INTERVAL

\* poll_task_until_done has returned its timeout result for the job the
\* loop is at
TimedOutAt(c) ==
  c.pc = "poll" /\ c.k <= Len(c.task_ids) /\ PollReturned(c.poll, c.k)
     /\ c.poll.out = "timeout"

\* the columns of video_tasks that hold free text
TextColumns == {"prompt", "prompt_type", "status", "video_url"}

\* the step persisted job t as failed together with the timeout reason and
\* left every other job as it was
TimeoutPersisted(t) ==
  /\ video_tasks'[t].status = "failed"
  /\ \E f \in DOMAIN video_tasks'[t] \cap TextColumns : video_tasks'[t][f] = "Timeout"
  /\ \A u \in DOMAIN video_tasks : u # t => video_tasks'[u] = video_tasks[u]

\* C23: polling one job makes at most ceil(timeout / interval) status
\* queries; when it ends by timeout the result is failed with the reason
\* Timeout, the job is persisted as failed with that reason, the other jobs
\* are left alone and the loop moves on to the next job.
C23_PollTermination ==
  [][/\ \A r \in DOMAIN runs :
           /\ runs'[r].poll.queries <= MaxQueries
           /\ runs'[r].poll.out = "timeout" => runs'[r].poll.error = "Timeout"
           /\ (TimedOutAt(runs[r]) /\ runs'[r] # runs[r]) =>
                 /\ TimeoutPersisted(runs[r].task_ids[runs[r].k])
                 /\ runs'[r].pc = "poll"
                 /\ runs'[r].k = runs[r].k + 1
     /\ \A p \in DOMAIN pollers :
           /\ pollers'[p].poll.queries <= MaxQueries
           /\ pollers'[p].poll.out = "timeout" => pollers'[p].poll.error = "Timeout"
           /\ (TimedOutAt(pollers[p]) /\ pollers'[p] # pollers[p]) =>
                 /\ TimeoutPersisted(pollers[p].task_ids[pollers[p].k])
                 /\ pollers'[p].pc = "poll"
                 /\ pollers'[p].k = pollers[p].k + 1]_vars

\* the status of RenderJob row t, "none" while there is no such row
TaskStatus(t) == IF t \in DOMAIN video_tasks THEN video_tasks[t].status ELSE "none"

\* C24: every job that was created eventually leaves status submitted,
\* whatever happens to the jobs before it.
C24_JobEventuallyPolled ==
  \A t \in 1..MaxTasks :
     (TaskStatus(t) = "submitted") ~> (TaskStatus(t) \notin {"none", "submitted"})

\* the pollers a run has started
PollersOf(r) == {p \in DOMAIN pollers : pollers[p].run = r}

\* a status query has been made for a job of run r
Queried(r) ==
  \/ runs[r].poll.queries > 0
  \/ \E p \in PollersOf(r) : pollers[p].poll.queries > 0

\* coroutine c (a run or a poller) makes a status query in this step, for
\* the job at index k of its list: every job before it in the list is older
\* and has had its terminal status persisted
QueryInOrder(c, st, k) ==
  QueryStep(c.poll, st) =>
     /\ st.polled = k
     /\ k = c.k
     /\ \A m \in 1..(k - 1) :
           /\ c.task_ids[m] < c.task_ids[k]
           /\ TaskStatus(c.task_ids[m]) # "submitted"

Forwarded(msgs, t) == \E m \in DOMAIN msgs : msgs[m].task_id = t

\* this step hands a job to an operator: a new message with the approval
\* keyboard
HandoffStep ==
  /\ Len(messages') = Len(messages) + 1
  /\ messages'[Len(messages')].kb = "approval"

\* C26: a job is handed to an operator only while its persisted status is
\* succeeded, and a poll loop leaves a succeeded job only after the job
\* has been handed over.
C26_HandoffOfSucceeded ==
  [][/\ HandoffStep => TaskStatus(messages'[Len(messages')].task_id) = "succeed"
     /\ \A r \in DOMAIN runs :
           (runs[r].pc = "send" /\ runs'[r].pc = "poll") =>
              Forwarded(messages', runs[r].task_ids[runs[r].k])
     /\ \A p \in DOMAIN pollers :
           (pollers[p].pc \in {"send", "store_msg"} /\ pollers'[p].pc = "poll") =>
              Forwarded(messages', pollers[p].task_ids[pollers[p].k])]_vars

\* responses by which the render service rejects a submission
Rejections == {"rejected_status", "rejected_code"}

\* a submission request was made in the step from submit state old to new
RequestStep(old, new) == new # old /\ new.attempts > 0

\* C27: a rejected submission is not retried: the call ends with the error
\* at that attempt, without a sleep.
C27_RejectionNotRetried ==
  [][\A r \in DOMAIN runs :
        (RequestStep(runs[r].submit, runs'[r].submit)
           /\ runs'[r].submit.response \in Rejections) =>
           /\ runs'[r].submit.out = "error"
           /\ Len(runs'[r].submit.slept) = runs'[r].submit.attempts - 1]_vars

\* the sleeps of a call follow its responses: 5, 10, 20 s after the first,
\* second and third rate-limited response, 60 s after a server error
WaitsFollow(st) ==
  \A n \in DOMAIN st.slept :
     /\ st.history[n] = "rate_limited" =>
           st.slept[n] = (IF n = 1 THEN 5 ELSE IF n = 2 THEN 10 ELSE 20)
     /\ st.history[n] = "server_error" => st.slept[n] = 60

\* C28: create_video_task makes at most 3 attempts and has then returned a
\* handle or raised; its rate-limit waits are 5, 10, 20 s and its
\* server-error waits 60 s; and a call that raised fails its instruction
\* only: no job is added, the jobs there are stay and the loop goes on.
C28_BoundedRetries ==
  [][\A r \in DOMAIN runs :
        LET st == runs'[r].submit
        IN /\ st.attempts <= 3
           /\ st.attempts = Len(st.history)
           /\ st.attempts = 3 => st.out \in {"ok", "error"}
           /\ st.out = "ok" <=> (st.history # <<>> /\ st.history[Len(st.history)] = "ok")
           /\ WaitsFollow(st)
           /\ (SubmitReturned(runs[r]) /\ runs[r].submit.out = "error"
                 /\ runs'[r] # runs[r]) =>
                 /\ video_tasks' = video_tasks
                 /\ runs'[r].task_ids = runs[r].task_ids
                 /\ runs'[r].pc = "submit"
                 /\ runs'[r].j = runs[r].j + 1]_vars

\* three rate-limited responses have exhausted a submission: it slept 5,
\* 10 and 20 s and then raised
C28_Witness ==
  \E r \in DOMAIN runs :
     /\ runs[r].submit.history = <<"rate_limited", "rate_limited", "rate_limited">>
     /\ runs[r].submit.slept = <<5, 10, 20>>
     /\ runs[r].submit.out = "error"

(***************************************************************************)
(* SpecUpsert: a caller of models.upsert_product that keeps the id it was  *)
(* handed, as test_data.test_database does (insert the catalog items, then *)
(* upsert them again with a score), with jobs created for stored items in  *)
(* between.                                                                *)
(***************************************************************************)
Scores == {3, 7}

UpsertCall(cscart_id, name, ai_score) ==
  /\ products' = upsert_product(products, cscart_id, name, ai_score)
  /\ handler' = [kind |-> "upsert", cscart_id |-> cscart_id, name |-> name,
                 ai_score |-> ai_score,
                 product_id |-> upsert_product_id(products, cscart_id, name,
                                                  ai_score)]
  /\ UNCHANGED <<now, video_tasks, generation_sessions, klingai_tasks, runs,
                 pollers, messages, gate_log, regen_log>>

NextUpsert ==
  \/ \E cscart_id \in CscartIds, name \in Names, ai_score \in Scores :
       UpsertCall(cscart_id, name, ai_score)
  \/ \E product_id \in 1..NumItems, prompt_type \in PromptTypes :
       StoreCreateTask(product_id, prompt_type)

SpecUpsert == Init /\ [][NextUpsert]_vars

\* an upsert call has just returned
UpsertStep == handler'.kind = "upsert" /\ <<products, handler>>' # <<products, handler>>

\* C29: after an upsert every external id is held by exactly one Item row;
\* an upsert of an id that is already stored writes the given name and score
\* into that row, returns the row's internal id, adds no row and moves no
\* other row, so that every RenderJob still points at the Item it was
\* created for; an upsert of a new id adds one row and returns its id.
C29_UpsertKeepsIdentity ==
  [][UpsertStep =>
       LET cid == handler'.cscart_id
           ret == handler'.product_id
           old == ProductIdOf(products, cid)
       IN  /\ \A i, j \in DOMAIN products' :
                products'[i].cscart_id = products'[j].cscart_id => i = j
           /\ ret \in DOMAIN products'
           /\ products'[ret] = [cscart_id |-> cid, name |-> handler'.name,
                                ai_score |-> handler'.ai_score]
           /\ old # 0 => ret = old /\ Len(products') = Len(products)
           /\ old = 0 => ret = Len(products) + 1 /\ Len(products') = ret
           /\ \A i \in DOMAIN products : i # ret => products'[i] = products[i]
           /\ \A t \in DOMAIN video_tasks' :
                /\ video_tasks'[t] = video_tasks[t]
                /\ video_tasks'[t].product_id \in DOMAIN products'
                /\ products'[video_tasks'[t].product_id].cscart_id
                     = products[video_tasks[t].product_id].cscart_id]_vars

\* an item that has a job was upserted again with another name and score and
\* the caller was handed the id the job points at, while a second item is
\* stored
C29_Witness ==
  /\ handler.kind = "upsert"
  /\ Len(products) >= 2
  /\ handler.product_id = 1
  /\ products[1].name = "n2" /\ products[1].ai_score = 7
  /\ \E t \in DOMAIN video_tasks :
        /\ video_tasks[t].product_id = 1
        /\ ItemOf(video_tasks[t]) = handler.cscart_id

(***************************************************************************)
(* SpecQueue: the awaiting-approval query of models.py asked between the   *)
(* writes the program makes to video_tasks, as test_data.test_database     *)
(* does (create a job, set it to succeed, read the queue), while the clock *)
(* runs, so that jobs are created both at one timestamp and at different   *)
(* ones.                                                                   *)
(***************************************************************************)
\* SELECT vt.* ... FROM video_tasks vt JOIN products p ON p.id = vt.product_id
\* WHERE vt.status = 'succeed' ORDER BY vt.created_at DESC: the row ids of
\* every result SQL allows.  Rows of equal created_at come in any order.
get_queue_tasks(tasks, prods) ==
  LET rows == {t \in DOMAIN tasks : /\ tasks[t].product_id \in DOMAIN prods
                                    /\ tasks[t].status = "succeed"}
  IN  {q \in [1..Cardinality(rows) -> rows] :
         /\ \A i, j \in DOMAIN q : q[i] = q[j] => i = j
         /\ \A i, j \in DOMAIN q :
               i < j => TextGE(tasks[q[i]].created_at, tasks[q[j]].created_at)}

\* the statuses update_video_task is called with: by the poll loops
\* (succeed, failed) and by the callbacks (approved, rejected, published)
WrittenStatuses == {"succeed", "failed", "approved", "rejected", "published"}

StoreUpdateTask(task_id, status) ==
  /\ task_id \in DOMAIN video_tasks
  /\ video_tasks' = update_video_task(video_tasks, task_id,
                                      [status |-> status], now)
  /\ UNCHANGED <<now, products, generation_sessions, klingai_tasks, runs,
                 pollers, messages, handler, gate_log, regen_log>>

QueueQuery ==
  /\ \E q \in get_queue_tasks(video_tasks, products) :
        handler' = [kind |-> "queue", tasks |-> q]
  /\ UNCHANGED <<now, products, video_tasks, generation_sessions,
                 klingai_tasks, runs, pollers, messages, gate_log, regen_log>>

NextQueue ==
  \/ ClockTick({DAILY_GENERATION_HOUR_UTC})
  \/ \E cscart_id \in CscartIds : StoreUpsert(cscart_id, "n1", 5)
  \/ \E product_id \in 1..NumItems, prompt_type \in PromptTypes :
       StoreCreateTask(product_id, prompt_type)
  \/ \E task_id \in 1..MaxTasks, status \in WrittenStatuses :
       StoreUpdateTask(task_id, status)
  \/ QueueQuery

SpecQueue == Init /\ [][NextQueue]_vars

\* the query has just returned
QueueStep == handler'.kind = "queue" /\ handler' # handler

\* the returned rows are exactly the jobs whose status is succeed, each once
QueueIsSucceeded(q) ==
  /\ Range(q) = {t \in DOMAIN video_tasks : video_tasks[t].status = "succeed"}
  /\ \A i, j \in DOMAIN q : q[i] = q[j] => i = j

\* C30: the awaiting-approval query returns exactly the jobs whose status
\* is succeeded at the time it is asked (so a job is in it once a poll has
\* marked it succeeded, no longer in it once it is approved, rejected,
\* regenerated or published, and never while submitted or failed), and it
\* returns them newest first: a job created later comes before every job
\* created earlier.
C30_QueueNewestFirst ==
  [][QueueStep =>
       /\ QueueIsSucceeded(handler'.tasks)
       /\ \A i, j \in DOMAIN handler'.tasks :
             i < j => handler'.tasks[i] > handler'.tasks[j]]_vars

\* the membership half of C30 alone
QueueExactlySucceeded ==
  [][QueueStep => QueueIsSucceeded(handler'.tasks)]_vars

\* the order the ORDER BY clause does give: created_at never increases
QueueByTimestamp ==
  [][QueueStep =>
       \A i, j \in DOMAIN handler'.tasks :
          i < j => CreatedInstant(video_tasks[handler'.tasks[i]])
                     >= CreatedInstant(video_tasks[handler'.tasks[j]])]_vars

(***************************************************************************)
(* SpecTwin: a /generate invocation and a daily job started side by side   *)
(* on the empty database at the cron instant, each given any outcome of    *)
(* every collaborator call.  heard keeps what each of them was answered,   *)
(* so the two can be compared when they were answered the same.            *)
(***************************************************************************)
InitTwin ==
  /\ now = DAILY_GENERATION_HOUR_UTC
  /\ products = <<>>
  /\ video_tasks = <<>>
  /\ generation_sessions = <<>>
  /\ klingai_tasks = 0
  /\ pollers = <<>>
  /\ messages = <<>>
  /\ gate_log = NoGate
  /\ regen_log = NoRegen
  /\ runs = <<RunRecord("manual", 1, {}), RunRecord("scheduled", 0, {})>>
  /\ handler = [Idle EXCEPT !.kind = "generate", !.run = 1]

TwinAnswers ==
  {[kind |-> "ok", new_products |-> <<Item(1)>>, popular_products |-> <<Item(1)>>],
   [kind |-> "ok", new_products |-> <<>>, popular_products |-> <<>>],
   [kind |-> "error", new_products |-> <<>>, popular_products |-> <<>>]}

TwinPollOutcomes == {"succeed", "failed", "raise"}

NextTwin ==
  \/ \E r \in DOMAIN runs : SchedStart(r)
  \/ \E r \in DOMAIN runs : Fetch(r, TwinAnswers)
  \/ \E r \in DOMAIN runs : Score(r, ScoreResponses)
  \/ \E r \in DOMAIN runs : Persist(r)
  \/ \E r \in DOMAIN runs : Gate(r, PromptResponses)
  \/ \E r \in DOMAIN runs : Submit(r, SubmitOutcomes)
  \/ \E r \in DOMAIN runs : Dispatch(r)
  \/ \E r \in DOMAIN runs : SchedPoll(r, TwinPollOutcomes)
  \/ \E r \in DOMAIN runs : SchedSend(r, AllSendOutcomes)
  \/ \E r \in DOMAIN runs : SchedStoreMsg(r)
  \/ \E p \in DOMAIN pollers : PollerPoll(p, TwinPollOutcomes, AllNotices)
  \/ \E p \in DOMAIN pollers : PollerSend(p, AllSendOutcomes)
  \/ \E p \in DOMAIN pollers : PollerStoreMsg(p)

SpecTwin == InitTwin /\ [][NextTwin]_vars

\* everything run r and its background poller were answered, in order
HeardBy(r) ==
  LET own == {p \in DOMAIN pollers : pollers[p].run = r}
  IN  IF own = {} THEN runs[r].heard
      ELSE runs[r].heard \o pollers[CHOOSE p \in own : TRUE].heard

\* a call to the catalog, the Curator or the render service
IsServiceCall(e) == e[1] \in {"fetch", "score", "prompts", "submit", "poll"}

\* the answers of the messenger to the run's sends and notices
MessengerAnswers(r) ==
  {HeardBy(r)[n][2] : n \in {m \in DOMAIN HeardBy(r) : ~IsServiceCall(HeardBy(r)[m])}}

\* the two runs were answered the same: call by call by the catalog, the
\* Curator and the render service, and alike by the messenger (the daily job
\* sends to every operator, /generate to one chat)
SameResponses(r, q) ==
  /\ SelectSeq(HeardBy(r), IsServiceCall) = SelectSeq(HeardBy(q), IsServiceCall)
  /\ MessengerAnswers(r) = MessengerAnswers(q)

\* the jobs of a run as the store has them, without ids and timestamps
JobsOfRun(r) ==
  [n \in DOMAIN runs[r].task_ids |->
     LET t == video_tasks[runs[r].task_ids[n]]
     IN <<t.product_id, t.prompt_type, t.prompt, t.status, t.video_url>>]

\* the PipelineRun row of a run (no element: the run has no row)
RowOfRun(r) ==
  IF runs[r].session_id \in DOMAIN generation_sessions
  THEN <<generation_sessions[runs[r].session_id]>>
  ELSE <<>>

\* C31: a manual run and a scheduled run that have both ended and were
\* given the same collaborator responses have created the same RenderJobs
\* with the same statuses and have left a PipelineRun row with the same
\* counts and the same status.
C31_TriggersEquivalent ==
  \A r, q \in DOMAIN runs :
     (/\ runs[r].trigger = "manual" /\ runs[q].trigger = "scheduled"
      /\ runs[r].pc = "done" /\ runs[q].pc = "done"
      /\ SameResponses(r, q))
       => /\ JobsOfRun(r) = JobsOfRun(q)
          /\ RowOfRun(r) = RowOfRun(q)

\* the half of C31 about the jobs alone
TwinSameJobs ==
  \A r, q \in DOMAIN runs :
     (/\ runs[r].trigger = "manual" /\ runs[q].trigger = "scheduled"
      /\ runs[r].pc = "done" /\ runs[q].pc = "done"
      /\ SameResponses(r, q))
       => JobsOfRun(r) = JobsOfRun(q)

\* C31 for the runs in which no call failed and no list was empty
TwinSameWhenAllSucceed ==
  \A r, q \in DOMAIN runs :
     (/\ runs[r].trigger = "manual" /\ runs[q].trigger = "scheduled"
      /\ runs[r].pc = "done" /\ runs[q].pc = "done"
      /\ SameResponses(r, q)
      /\ runs[r].task_ids # <<>>
      /\ \A n \in DOMAIN HeardBy(r) :
            IF HeardBy(r)[n][1] \in {"fetch", "score", "prompts"}
            THEN HeardBy(r)[n][2].kind # "error"
            ELSE HeardBy(r)[n][2] \in {"ok", "succeed", "video"})
       => /\ JobsOfRun(r) = JobsOfRun(q)
          /\ RowOfRun(r) = RowOfRun(q)

(***************************************************************************)
(* Run accounting: the counts of a PipelineRun row against what its run    *)
(* did.                                                                    *)
(***************************************************************************)
\* how many of the answers a run got were this answer to this call
RECURSIVE CountHeard(_, _, _)
CountHeard(h, call, answers) ==
  IF h = <<>> THEN 0
  ELSE (IF Head(h)[1] = call /\ Head(h)[2] \in answers THEN 1 ELSE 0)
         + CountHeard(Tail(h), call, answers)

\* the poll loop of the run went through all its jobs and reported
Reported(r) ==
  IF runs[r].trigger = "scheduled"
  THEN runs[r].pc = "done" /\ runs[r].polling /\ ~runs[r].raised
  ELSE \E p \in DOMAIN pollers : pollers[p].run = r /\ pollers[p].pc = "done"

\* the completed count the poll loop of the run reports
ReportedCompleted(r) ==
  IF runs[r].trigger = "scheduled" THEN runs[r].completed
  ELSE pollers[CHOOSE p \in DOMAIN pollers : pollers[p].run = r].completed

\* C32: when a run has ended, the counts of its PipelineRun row are what
\* the run did: products_fetched is the size of the de-duplicated fetch,
\* products_selected the number of selected entries, videos_generated the
\* number of RenderJob rows the run inserted, which is the number of
\* instructions whose submission succeeded; the completed count the run
\* reports is the number of its jobs that were polled to succeed and is at
\* most the number of its jobs.
C32_RunAccounting ==
  \A r \in DOMAIN runs :
     (runs[r].pc = "done" /\ runs[r].session_id \in DOMAIN generation_sessions)
       => LET row == generation_sessions[runs[r].session_id]
          IN  /\ row.products_fetched = Len(runs[r].all_products)
              /\ row.products_selected = Len(runs[r].selected)
              /\ row.videos_generated = Len(runs[r].task_ids)
              /\ Len(runs[r].task_ids) = CountHeard(runs[r].heard, "submit", {"ok"})
              /\ Reported(r) =>
                    /\ ReportedCompleted(r) =
                          CountHeard(HeardBy(r), "poll", {"succeed", "succeed_no_url"})
                    /\ ReportedCompleted(r) <= Len(runs[r].task_ids)

\* C32 for the runs that no exception ended
AccountingWithoutException ==
  \A r \in DOMAIN runs :
     (/\ runs[r].pc = "done" /\ runs[r].session_id \in DOMAIN generation_sessions
      /\ ~runs[r].raised
      /\ \A p \in DOMAIN pollers : pollers[p].run = r => pollers[p].pc = "done")
       => LET row == generation_sessions[runs[r].session_id]
          IN  /\ row.products_fetched = Len(runs[r].all_products)
              /\ row.products_selected = Len(runs[r].selected)
              /\ row.videos_generated = Len(runs[r].task_ids)
              /\ Len(runs[r].task_ids) = CountHeard(runs[r].heard, "submit", {"ok"})
              /\ Reported(r) =>
                    /\ ReportedCompleted(r) =
                          CountHeard(HeardBy(r), "poll", {"succeed", "succeed_no_url"})
                    /\ ReportedCompleted(r) <= Len(runs[r].task_ids)

(***************************************************************************)
(* Regeneration next to a full run (SpecApproval).                         *)
(***************************************************************************)
\* a step of _handle_regenerate: it begins (and goes on to the Curator call
\* or ends on a failed edit) or it ends
RegenerateActs ==
  \/ handler.kind = "idle" /\ handler'.kind = "regenerate"
  \/ handler.kind = "regenerate" /\ handler'.kind = "idle"
  \/ handler.kind = "idle" /\ handler'.kind = "idle" /\ regen_log' # regen_log

\* the job the handler was asked to regenerate
RegenerateOf ==
  IF handler.kind = "regenerate" THEN handler.task_id
  ELSE IF handler'.kind = "regenerate" THEN handler'.task_id
  ELSE regen_log'.old

\* C33: a step of a regenerate action leaves the idempotency gate unasked,
\* every PipelineRun row and every run as they are, and every RenderJob
\* other than the regenerated one as it is; it adds at most one job, and
\* when it adds one it starts a background poll loop of its own for exactly
\* that job, bound to no PipelineRun, and touches no other poll loop: all
\* this whether a full run is in progress or not.
C33_RegenerateIndependent ==
  [][RegenerateActs =>
       /\ gate_log' = gate_log
       /\ generation_sessions' = generation_sessions
       /\ runs' = runs
       /\ \A t \in DOMAIN video_tasks :
             t # RegenerateOf => video_tasks'[t] = video_tasks[t]
       /\ Len(video_tasks') \in {Len(video_tasks), Len(video_tasks) + 1}
       /\ IF Len(video_tasks') = Len(video_tasks) + 1
          THEN /\ Len(pollers') = Len(pollers) + 1
               /\ SubSeq(pollers', 1, Len(pollers)) = pollers
               /\ pollers'[Len(pollers')].task_ids = <<Len(video_tasks')>>
               /\ pollers'[Len(pollers')].session_id = 0
               /\ pollers'[Len(pollers')].pc = "poll"
          ELSE pollers' = pollers]_vars

\* a regenerated job that its own poll loop has taken out of submitted
\* while the full run that made the original job is still in progress
C33_Witness ==
  /\ regen_log.new # 0
  /\ video_tasks[regen_log.new].status # "submitted"
  /\ video_tasks[regen_log.old].status = "rejected"
  /\ \E r \in DOMAIN runs :
        /\ runs[r].pc \notin {"done", "start", "fetch"}
        /\ regen_log.old \in Range(runs[r].task_ids)
  /\ \E p \in DOMAIN pollers :
        pollers[p].task_ids = <<regen_log.new>> /\ pollers[p].session_id = 0

(***************************************************************************)
(* Partial updates (SpecApproval).                                         *)
(***************************************************************************)
\* the coroutine stores the handle of the message it has just sent
StoresHandle(co, co2) == co.pc = "store_msg" /\ co2.pc # "store_msg"

\* only telegram_message_id and updated_at of job t change in the step, and
\* no other row changes
OnlyHandleWritten(t, sent) ==
  /\ video_tasks' = [video_tasks EXCEPT ![t] =
                       [@ EXCEPT !.telegram_message_id = sent,
                                 !.updated_at = IsoFormat(now)]]
  /\ video_tasks'[t].status = video_tasks[t].status

\* the columns the pipeline names in the update_session call it makes at
\* a stage (status: the failure branches and the except clause)
NamedAt(pc) ==
  CASE pc = "fetch" -> {"products_fetched", "status"}
    [] pc = "score" -> {"products_selected", "status"}
    [] pc = "dispatch" -> {"videos_generated", "status"}
    [] pc = "background" -> {"videos_generated", "status"}
    [] OTHER -> {"status"}

\* C34: storing the approval-message handle of a job changes the job's
\* telegram_message_id and updated_at only, so a status an operator has
\* set since the message was sent stays; and a step of a run that updates
\* its PipelineRun row changes no column of the row that the update does
\* not name and no other row.
C34_PartialUpdates ==
  [][/\ \A r \in DOMAIN runs :
          StoresHandle(runs[r], runs'[r]) =>
             OnlyHandleWritten(runs[r].task_ids[runs[r].k], runs[r].sent)
     /\ \A p \in DOMAIN pollers :
          StoresHandle(pollers[p], pollers'[p]) =>
             OnlyHandleWritten(pollers[p].task_ids[pollers[p].k], pollers[p].sent)
     /\ \A n \in DOMAIN generation_sessions :
          generation_sessions'[n] # generation_sessions[n] =>
             \E r \in DOMAIN runs :
                /\ runs[r].session_id = n
                /\ \A f \in DOMAIN generation_sessions[n] :
                      f \notin NamedAt(runs[r].pc) =>
                         generation_sessions'[n][f] = generation_sessions[n][f]]_vars

\* an operator has approved a job from the message whose handle the run is
\* about to store: the decision landed between the send and the update
C34_Witness ==
  \E r \in DOMAIN runs :
     /\ runs[r].pc = "store_msg"
     /\ runs[r].sent \in DOMAIN messages
     /\ messages[runs[r].sent].kb = "publish"
     /\ video_tasks[runs[r].task_ids[runs[r].k]].status = "approved"
     /\ video_tasks[runs[r].task_ids[runs[r].k]].telegram_message_id # runs[r].sent
     /\ generation_sessions[runs[r].session_id].products_fetched > 0

(***************************************************************************)
(* The link from a job to its Item (SpecPersist: rankings that select an   *)
(* id the run did not fetch, two runs with different fetch sets).          *)
(***************************************************************************)
\* every job points at a stored Item, and every job of a run at an Item
\* that the run fetched and selected
JobsBelong ==
  /\ \A t \in DOMAIN video_tasks : video_tasks[t].product_id \in DOMAIN products
  /\ \A r \in DOMAIN runs : \A n \in DOMAIN runs[r].task_ids :
        LET cid == ItemOf(video_tasks[runs[r].task_ids[n]])
        IN  /\ InProductMap(runs[r].all_products, cid)
            /\ \E e \in DOMAIN runs[r].selected : runs[r].selected[e].cscart_id = cid

\* run r is at a selected entry whose id it did not fetch or that has no
\* store record
AtForeignEntry(r) ==
  /\ runs[r].pc = "gate"
  /\ runs[r].i \in DOMAIN runs[r].selected
  /\ \/ ~InProductMap(runs[r].all_products, runs[r].selected[runs[r].i].cscart_id)
     \/ ProductIdOf(products, runs[r].selected[runs[r].i].cscart_id) = 0

\* C35: every RenderJob row references an existing Item row, every job a
\* full run created belongs to an Item that is in the run's de-duplicated
\* fetch and among its selected entries, and the pass over a selected entry
\* whose id is not in the fetch (or has no store record) asks the Curator
\* for nothing and creates no job: the run goes on to its next entry.
C35_JobsBelongToFetchedSelected ==
  /\ []JobsBelong
  /\ [][\A r \in DOMAIN runs :
          (AtForeignEntry(r) /\ runs'[r] # runs[r]) =>
             /\ runs'[r].heard = runs[r].heard
             /\ runs'[r].task_ids = runs[r].task_ids
             /\ video_tasks' = video_tasks
             /\ runs'[r].pc = "gate" /\ runs'[r].i = runs[r].i + 1]_vars

\* one run has passed over a selected entry it had not fetched, without a
\* Curator request or a job, while the other has a job for an item it
\* fetched and selected
C35_Witness ==
  \E r, q \in DOMAIN runs :
     /\ runs[r].pc = "dispatch"
     /\ \E e \in DOMAIN runs[r].selected :
           ~InProductMap(runs[r].all_products, runs[r].selected[e].cscart_id)
     /\ CountHeard(runs[r].heard, "prompts", OnePrompt) = 0
     /\ runs[r].task_ids = <<>>
     /\ runs[q].task_ids # <<>>

(***************************************************************************)
(* SpecFanOut: one invocation whose catalog answer has six items and whose *)
(* Curator flags five or six of them selected and returns batches of no,   *)
(* one or three instructions; submissions succeed or fail.                 *)
(***************************************************************************)
FanOutAnswers ==
  {[kind |-> "ok", new_products |-> [n \in 1..MaxRanked |-> Item(n)],
    popular_products |-> <<Item(1)>>]}

FanOutScores ==
  {[kind |-> "ranked",
    ranked |-> [i \in 1..MaxRanked |->
                  [cscart_id |-> i, score |-> 7,
                   selected |-> IF i <= n THEN "yes" ELSE "no"]]] :
     n \in {PRODUCTS_TO_SELECT_DAILY, MaxRanked}}

FanOutPrompts ==
  {[kind |-> "prompts", prompts |-> <<>>],
   [kind |-> "prompts", prompts |-> <<[type |-> "detail", prompt |-> "text"]>>],
   [kind |-> "prompts", prompts |-> <<[type |-> "detail", prompt |-> "text"],
                                      [type |-> "lifestyle", prompt |-> "text"],
                                      [type |-> "detail", prompt |-> "text"]>>]}

NextFanOut ==
  \/ \E r \in DOMAIN runs : SchedStart(r)
  \/ \E r \in DOMAIN runs : Fetch(r, FanOutAnswers)
  \/ \E r \in DOMAIN runs : Score(r, FanOutScores)
  \/ \E r \in DOMAIN runs : Persist(r)
  \/ \E r \in DOMAIN runs : Gate(r, FanOutPrompts)
  \/ \E r \in DOMAIN runs : Submit(r, SubmitOutcomes)
  \/ \E r \in DOMAIN runs : Dispatch(r)

SpecFanOut == InitOutcome /\ [][NextFanOut]_vars

\* the jobs of run r that belong to the item with this catalog id
JobsForItem(r, cid) ==
  {n \in DOMAIN runs[r].task_ids : ItemOf(video_tasks[runs[r].task_ids[n]]) = cid}

\* C36: in a run at most PRODUCTS_TO_SELECT_DAILY items get an instruction
\* request, each item gets at most VIDEO_VARIANTS_PER_PRODUCT jobs, and so
\* the run has at most PRODUCTS_TO_SELECT_DAILY * VIDEO_VARIANTS_PER_PRODUCT
\* jobs, whatever the Curator returns.
C36_FanOutBounded ==
  \A r \in DOMAIN runs :
     /\ CountHeard(runs[r].heard, "prompts", FanOutPrompts)
          <= PRODUCTS_TO_SELECT_DAILY
     /\ \A cid \in 1..MaxRanked :
          Cardinality(JobsForItem(r, cid)) <= VIDEO_VARIANTS_PER_PRODUCT
     /\ Len(runs[r].task_ids)
          <= PRODUCTS_TO_SELECT_DAILY * VIDEO_VARIANTS_PER_PRODUCT

\* the bound as the code keeps it when the Curator flags at most the
\* requested number of entries: one request per selected entry
RequestsWithinSelection ==
  \A r \in DOMAIN runs :
     CountHeard(runs[r].heard, "prompts", FanOutPrompts) <= Len(runs[r].selected)

(***************************************************************************)
(* SpecZero: one invocation under every collaborator outcome, as in        *)
(* SpecOutcome, with the progress message of cmd_generate taken into       *)
(* account: after the fan-out cmd_generate edits its message (and once     *)
(* more when it has no job) before it records anything further, and the    *)
(* edit is a messenger call that can fail.  daily_generation_job reports   *)
(* through _notify_admins, which swallows the failure.                     *)
(***************************************************************************)
\* after the fan-out, with the outcome of msg.edit_text: a failed edit
\* raises into the except clause of cmd_generate after videos_generated
\* was recorded and before a poller is started or failed is recorded
DispatchEdited(r, edits) ==
  \E edit \in edits :
     IF edit = "ok" \/ (r \in DOMAIN runs /\ runs[r].trigger = "scheduled")
     THEN Dispatch(r)
     ELSE /\ r \in DOMAIN runs
          /\ runs[r].pc = "dispatch"
          /\ generation_sessions' =
                update_session(generation_sessions, runs[r].session_id,
                               [videos_generated |-> runs[r].total_tasks])
          /\ runs' = [runs EXCEPT ![r] =
                        [Heard(runs[r], "edit", edit) EXCEPT
                            !.pc = "done", !.raised = TRUE, !.raised_at = "dispatch"]]
          /\ handler' = Idle
          /\ UNCHANGED <<now, products, video_tasks, klingai_tasks, pollers,
                         messages, gate_log, regen_log>>

ZeroPrompts ==
  {[kind |-> "prompts", prompts |-> <<[type |-> "detail", prompt |-> "text"]>>],
   [kind |-> "prompts", prompts |-> <<>>],
   [kind |-> "error", prompts |-> <<>>]}

NextZero ==
  \/ \E r \in DOMAIN runs : SchedStart(r)
  \/ \E r \in DOMAIN runs : Fetch(r, OutcomeAnswers)
  \/ \E r \in DOMAIN runs : Score(r, OutcomeScores)
  \/ \E r \in DOMAIN runs : Persist(r)
  \/ \E r \in DOMAIN runs : Gate(r, ZeroPrompts)
  \/ \E r \in DOMAIN runs : Submit(r, SubmitOutcomes)
  \/ \E r \in DOMAIN runs : DispatchEdited(r, Edits)
  \/ \E r \in DOMAIN runs : SchedPoll(r, AllPollOutcomes)
  \/ \E r \in DOMAIN runs : SchedSend(r, AllSendOutcomes)
  \/ \E r \in DOMAIN runs : SchedStoreMsg(r)
  \/ \E p \in DOMAIN pollers : PollerPoll(p, AllPollOutcomes, AllNotices)
  \/ \E p \in DOMAIN pollers : PollerSend(p, AllSendOutcomes)
  \/ \E p \in DOMAIN pollers : PollerStoreMsg(p)

SpecZero == InitOutcome /\ [][NextZero]_vars

\* the run went through its whole fan-out, created no job and has ended
EndedWithoutJobs(r) ==
  /\ runs[r].pc = "done"
  /\ runs[r].all_products # <<>>
  /\ runs[r].raised_at \notin {"fetch", "score", "persist", "gate"}
  /\ runs[r].task_ids = <<>>

\* the run made no status query and handed nothing over
NothingPolledOrSent(r) ==
  /\ CountHeard(HeardBy(r), "poll", AllPollOutcomes) = 0
  /\ CountHeard(HeardBy(r), "send", AllSendOutcomes) = 0
  /\ \A p \in DOMAIN pollers : pollers[p].run # r
  /\ messages = <<>>

\* C37: a run that went through its fan-out without creating a RenderJob
\* (every selected entry skipped, every batch empty or every submission
\* failed) makes no status query, hands nothing to the operators and ends
\* with its PipelineRun row failed, by either trigger.
C37_ZeroJobsRunFails ==
  \A r \in DOMAIN runs :
     EndedWithoutJobs(r) =>
        /\ NothingPolledOrSent(r)
        /\ RunStatus(runs[r]) = "failed"

\* C37 without the status of the manual run whose message edit failed
ZeroJobsNoPolling ==
  \A r \in DOMAIN runs :
     EndedWithoutJobs(r) =>
        /\ NothingPolledOrSent(r)
        /\ runs[r].raised_at # "dispatch" => RunStatus(runs[r]) = "failed"

(***************************************************************************)
(* SpecRemoteId: one invocation under every collaborator outcome, where    *)
(* the render service may also accept a request and answer with an empty   *)
(* task id.  The row is then inserted with that id, and both poll loops    *)
(* pass over it.                                                           *)
(***************************************************************************)
AllSubmitOutcomes == {"ok", "ok_no_id", "error"}

RemoteIdPrompts ==
  {[kind |-> "prompts", prompts |-> <<[type |-> "detail", prompt |-> "text"],
                                      [type |-> "motion", prompt |-> "text"]>>],
   [kind |-> "error", prompts |-> <<>>]}

NextRemoteId ==
  \/ \E r \in DOMAIN runs : SchedStart(r)
  \/ \E r \in DOMAIN runs : Fetch(r, OutcomeAnswers)
  \/ \E r \in DOMAIN runs : Score(r, OutcomeScores)
  \/ \E r \in DOMAIN runs : Persist(r)
  \/ \E r \in DOMAIN runs : Gate(r, RemoteIdPrompts)
  \/ \E r \in DOMAIN runs : Submit(r, AllSubmitOutcomes)
  \/ \E r \in DOMAIN runs : Dispatch(r)
  \/ \E r \in DOMAIN runs : SchedPoll(r, AllPollOutcomes)
  \/ \E r \in DOMAIN runs : SchedSend(r, AllSendOutcomes)
  \/ \E r \in DOMAIN runs : SchedStoreMsg(r)
  \/ \E p \in DOMAIN pollers : PollerPoll(p, AllPollOutcomes, AllNotices)
  \/ \E p \in DOMAIN pollers : PollerSend(p, AllSendOutcomes)
  \/ \E p \in DOMAIN pollers : PollerStoreMsg(p)

SpecRemoteId == InitOutcome /\ [][NextRemoteId]_vars

\* C38: whenever the PipelineRun row of a run has status completed, every
\* RenderJob the run created has left status submitted.
C38_CompletedAfterAllJobs ==
  \A r \in DOMAIN runs :
     RunStatus(runs[r]) = "completed" =>
        \A n \in DOMAIN runs[r].task_ids :
           StatusOf(runs[r].task_ids[n]) # "submitted"

\* C38 for the jobs that carry a remote id
CompletedAfterAllQueriedJobs ==
  \A r \in DOMAIN runs :
     RunStatus(runs[r]) = "completed" =>
        \A n \in DOMAIN runs[r].task_ids :
           ~NoRemoteId(runs[r].task_ids[n]) =>
              StatusOf(runs[r].task_ids[n]) # "submitted"

(***************************************************************************)
(* The writes of the poll loops.                                           *)
(***************************************************************************)
JobStatuses == {"submitted", "succeed", "failed", "approved", "rejected", "published"}

\* in this step the poll loop co received the terminal result of a job
PollAnswered(co, co2) ==
  /\ Len(co2.heard) > Len(co.heard)
  /\ co2.heard[Len(co.heard) + 1][1] = "poll"
  /\ co2.heard[Len(co.heard) + 1][2] # "raise"

PollAnswer(co, co2) == co2.heard[Len(co.heard) + 1][2]

\* this step took job t from submitted to the status of the answer, with the
\* video url the answer carried, and wrote no other job
WrittenOnce(t, answer) ==
  /\ StatusOf(t) = "submitted"
  /\ video_tasks'[t].status =
        IF answer \in {"succeed", "succeed_no_url"} THEN "succeed" ELSE "failed"
  /\ answer = "succeed" => video_tasks'[t].video_url = "url"
  /\ answer = "succeed_no_url" => video_tasks'[t].video_url = ""
  /\ answer \notin {"succeed", "succeed_no_url"} =>
        video_tasks'[t].video_url = video_tasks[t].video_url
  /\ \A i \in DOMAIN video_tasks : i # t => video_tasks'[i] = video_tasks[i]

\* a poll loop received the result of job t in this step
AnsweredFor(t) ==
  \/ \E r \in DOMAIN runs :
        /\ runs[r].pc = "poll" /\ PollAnswered(runs[r], runs'[r])
        /\ runs[r].task_ids[runs[r].k] = t
  \/ \E p \in DOMAIN pollers :
        /\ pollers[p].pc = "poll" /\ PollAnswered(pollers[p], pollers'[p])
        /\ pollers[p].task_ids[pollers[p].k] = t

MaxDenied == 2       \* refusals recorded per behaviour

Stranger == NumAdmins + 1
Users == {1, Stranger}
CallbackData == {"approve", "reject", "regenerate", "details", "publish"}

\* a test that would let every sender through
IsAdminAnyone(user_id) == TRUE

\* user_id in TELEGRAM_ADMIN_IDS
IsAdmin(user_id) == user_id \in TELEGRAM_ADMIN_IDS

\* the refusal: nothing but the answer to the sender
Denied(user_id, task_id) ==
  /\ Cardinality({m \in DOMAIN messages : messages[m].kb = "denied"}) < MaxDenied
  /\ messages' = Append(messages,
                   [task_id |-> task_id, chat_id |-> user_id, kb |-> "denied"])
  /\ UNCHANGED <<now, products, video_tasks, generation_sessions, klingai_tasks,
                 runs, pollers, handler, gate_log, regen_log>>

\* @admin_only async def cmd_generate
CmdGenerateFrom(user_id) ==
  IF IsAdmin(user_id)
  THEN CmdGenerate(user_id)
  ELSE handler = Idle /\ Denied(user_id, 0)

\* callback_handler: the sender test, then the route by the button's data
callback_handler(user_id, m, data, edits) ==
  /\ handler = Idle
  /\ m \in DOMAIN messages
  /\ messages[m].kb \in {"approval", "publish"}
  /\ data = "publish" <=> messages[m].kb = "publish"
  /\ IF ~IsAdmin(user_id)
     THEN Denied(user_id, messages[m].task_id)
     ELSE CASE data = "approve" -> Approve(m, edits)
            [] data = "reject" -> Reject(m, edits)
            [] data = "regenerate" -> RegenerateBegin(m, edits)
            [] data = "details" -> Details(m)
            [] OTHER -> Publish(m, edits)

InitAccess ==
  /\ now = 0
  /\ products = <<>>
  /\ video_tasks = <<>>
  /\ generation_sessions = <<>>
  /\ klingai_tasks = 0
  /\ runs = <<>>
  /\ pollers = <<>>
  /\ messages = <<>>
  /\ handler = Idle
  /\ gate_log = NoGate
  /\ regen_log = NoRegen

NextAccess ==
  \/ \E user_id \in Users : CmdGenerateFrom(user_id)
  \/ \E r \in DOMAIN runs : Fetch(r, OneAnswer)
  \/ \E r \in DOMAIN runs : Score(r, OneScore)
  \/ \E r \in DOMAIN runs : Persist(r)
  \/ \E r \in DOMAIN runs : Gate(r, OnePrompt)
  \/ \E r \in DOMAIN runs : Submit(r, {"ok"})
  \/ \E r \in DOMAIN runs : Dispatch(r)
  \/ \E p \in DOMAIN pollers : PollerPoll(p, {"succeed"}, Notices)
  \/ \E p \in DOMAIN pollers : PollerSend(p, {"video"})
  \/ \E p \in DOMAIN pollers : PollerStoreMsg(p)
  \/ \E user_id \in Users, m \in DOMAIN messages, data \in CallbackData :
        callback_handler(user_id, m, data, {"ok"})
  \/ RegenerateFinish(OnePrompt, {"ok"})

SpecAccess == InitAccess /\ [][NextAccess]_vars

\* the step is what the handlers do for a command or a callback of a user
\* outside TELEGRAM_ADMIN_IDS
OutsiderActs ==
  \E user_id \in Users \ TELEGRAM_ADMIN_IDS :
     \/ CmdGenerateFrom(user_id)
     \/ \E m \in DOMAIN messages, data \in CallbackData :
           callback_handler(user_id, m, data, {"ok"})

\* C40: a /generate command or an approve, reject, regenerate, details or
\* publish callback from a user outside the admin set leaves every
\* RenderJob, Item and PipelineRun as it was and starts no submission and
\* no poll loop; every run and every poller belongs to an operator.
C40_OnlyOperatorsChangeState ==
  /\ [](/\ \A r \in DOMAIN runs : runs[r].chat_id \in TELEGRAM_ADMIN_IDS
        /\ \A p \in DOMAIN pollers : pollers[p].chat_id \in TELEGRAM_ADMIN_IDS
        /\ handler.kind # "idle" => handler.chat_id \in TELEGRAM_ADMIN_IDS \cup {0})
  /\ [][OutsiderActs =>
          UNCHANGED <<video_tasks, products, generation_sessions, klingai_tasks,
                      runs, pollers, handler>>]_vars

\* an outsider has been refused /generate and a button of a finished job,
\* and the job is still as the poll loop left it
C40_Witness ==
  /\ \E m \in DOMAIN messages :
        /\ messages[m].kb = "denied" /\ messages[m].chat_id = Stranger
        /\ messages[m].task_id = 0
  /\ \E m \in DOMAIN messages :
        /\ messages[m].kb = "denied" /\ messages[m].chat_id = Stranger
        /\ messages[m].task_id \in DOMAIN video_tasks
        /\ StatusOf(messages[m].task_id) = "succeed"

(***************************************************************************)
(* SpecDedup: the fetch stage of one invocation, manual or scheduled, over *)
(* every pair of catalog answers up to MaxFetchLen items each.             *)
(***************************************************************************)
CatalogItems == [cscart_id : CscartIds, name : Names]

FetchError == [kind |-> "error", new_products |-> <<>>, popular_products |-> <<>>]

DedupAnswers ==
  {[kind |-> "ok", new_products |-> n, popular_products |-> p] :
     n \in SeqsUpTo(CatalogItems, MaxFetchLen),
     p \in SeqsUpTo(CatalogItems, MaxFetchLen)} \cup {FetchError}

InitDedup ==
  /\ now = DAILY_GENERATION_HOUR_UTC
  /\ products = <<>>
  /\ video_tasks = <<>>
  /\ klingai_tasks = 0
  /\ pollers = <<>>
  /\ messages = <<>>
  /\ gate_log = NoGate
  /\ regen_log = NoRegen
  /\ \/ /\ runs = <<RunRecord("manual", 1, {})>>
        /\ handler = [Idle EXCEPT !.kind = "generate", !.run = 1]
        /\ generation_sessions = <<>>
     \/ /\ runs = <<[RunRecord("scheduled", 0, {}) EXCEPT !.pc = "fetch",
                                                          !.session_id = 1]>>
        /\ handler = Idle
        /\ generation_sessions = create_session(<<>>)

NextDedup == \E r \in DOMAIN runs : Fetch(r, DedupAnswers)

SpecDedup == InitDedup /\ [][NextDedup]_vars

FirstIndex(s, cid) ==
  CHOOSE n \in DOMAIN s :
     /\ s[n].cscart_id = cid
     /\ \A m \in 1..(n - 1) : s[m].cscart_id # cid

IdsOf(s) == {s[n].cscart_id : n \in DOMAIN s}

\* C10: the deduplicated working set of every run, manual or scheduled,
\* holds each external id exactly once, holds every id of either list, and
\* is ordered by first occurrence in the recent-then-popular concatenation
\* (each entry being that first occurrence).
C10_Dedup ==
  \A r \in DOMAIN runs :
     LET cat == runs[r].new_products \o runs[r].popular_products
         all == runs[r].all_products
     IN /\ \A a, b \in DOMAIN all : a # b => all[a].cscart_id # all[b].cscart_id
        /\ IdsOf(all) = IdsOf(cat)
        /\ \A a \in DOMAIN all : all[a] = cat[FirstIndex(cat, all[a].cscart_id)]
        /\ \A a, b \in DOMAIN all :
              a < b => FirstIndex(cat, all[a].cscart_id)
                         < FirstIndex(cat, all[b].cscart_id)

\* a scheduled run whose answers repeat an id inside one list and across lists
C10_Witness ==
  \E r \in DOMAIN runs :
     /\ runs[r].trigger = "scheduled"
     /\ runs[r].pc = "score"
     /\ Len(runs[r].new_products) = 2
     /\ IdsOf(runs[r].new_products) = {1}
     /\ Len(runs[r].popular_products) = 2
     /\ IdsOf(runs[r].popular_products) = {1, 2}
     /\ Len(runs[r].all_products) = 2

============================================================================
